---- MODULE Spec2Model ----
(***************************************************************************)
(* A model of the tui-lib crates:                                          *)
(*   - the input decoder of src/src/tty/input.rs (InputParser, CSIList,    *)
(*     CSICommand, Modifiers), byte for byte;                              *)
(*   - the generational arena of src/nixtui-allocator (AnyArena).          *)
(* Bytes are the integers 0..255, byte strings are sequences of bytes, an  *)
(* Option is a sequence of length at most one (None = <<>>, Some(x) =      *)
(* <<x>>).                                                                 *)
(***************************************************************************)
EXTENDS Integers, Sequences, FiniteSets, TLC

VARIABLES
    \* --- CSICommand::parse applied to a byte slice
    csi_bytes,      \* the slice handed to CSICommand::parse
    csi_result,     \* what it returned: None or Some([cmd, len])
    csi_pc,         \* "idle" before the call, "done" after it
    \* --- CSIList::match_csi applied to a list and an incoming command
    list_data,      \* CSIList.data: a sequence of <<CSICommand, codepoint>>
    list_csi,       \* the incoming command
    list_result,    \* what match_csi returned: None or Some(codepoint)
    list_pc,        \* "idle" before the lookup, "done" after it
    \* --- InputParser
    db,             \* None, or Some(database) once push_from_terminfo has run
    mappings,       \* InputParser.mappings.data
    input,          \* the byte slice handed to InputParser::parse
    overflow_checks,\* the build parse runs in: TRUE = arithmetic overflow panics,
                    \* FALSE = it wraps
    events,         \* the outcome of parse: [panic, events]
    ppc,            \* "idle" before parse is called, "parsed" after it
    \* --- AnyArena
    items,          \* AnyArena.items: a sequence of [inner, alive, generation]
    issued,         \* every handle insert returned so far, with the value inserted
    removed,        \* every handle passed to remove so far
    \* --- ArenaAlloc
    alloc_items,    \* ArenaAlloc.items: a sequence of [inner, alive, generation]
    alloc_issued,   \* every handle insert returned so far, with the value inserted
    \* --- Modifiers
    mod_a,          \* the receiver of the Modifiers operations
    mod_b,          \* their other operand
    mod_out,        \* what the operations returned
    mod_pc,         \* "idle" before they are called, "done" after
    \* --- TuiAnchors
    anchors,        \* TuiAnchors.anchors: the items of an ArenaAlloc of
                    \* (Anchor, Option<RectHandle>)
    size,           \* TuiAnchors.size: the viewport, a Rect
    anchor_handles, \* every AnchorHandle add_anchor and add_anchor_in returned
    \* --- Rect::from(winsize)
    winsize,        \* the winsize converted: [ws_col, ws_row]
    ws_checks,      \* the build the conversion runs in, as overflow_checks
    ws_rect,        \* what it gave: [panic, rect]
    \* --- TerminfoWrapper
    tw_db,          \* None, or Some(TerminfoWrapper.db) once the wrapper is built
    buffer,         \* TerminfoWrapper.buffer
    sink,           \* the Vec<u8> that flush_to is handed
    emitted,        \* the bytes each successful call appended since the buffer
                    \* was last emptied, one element per call, in call order
    tw_calls,       \* the number of successful calls that appended to the buffer
    tw_call,        \* the last call on the wrapper: <<method or capability, arguments>>
    tw_last,        \* what it returned
    \* --- UnixTerminal on the tty
    tty_attrs,      \* the line-discipline attributes of the tty (what tcgetattr reads)
    term_call,      \* the last operation on the tty's attributes
    term_result,    \* what it returned
    term_arg,       \* the SetArg of the tcsetattr it made, or None if it made none
    \* --- Selector (examples/selector.rs)
    sel_pc,         \* where the program is: "start", the line of run() it executes
                    \* next, "unwinding" after a panic, "returned", "dropped", or
                    \* "aborted" when no Selector was built
    orig_termios,   \* Selector.orig_termios: None before Selector::new
    sel_db,         \* Selector.terminfo.db: None before Selector::new
    sel_buffer,     \* Selector.terminfo.buffer
    tty_out,        \* the bytes written to the tty
    cursor_pos,     \* Selector.cursor_pos
    frames,         \* the number of frames drawn
    applied,        \* the capabilities with a paired undo that were emitted and
                    \* whose undo was not, in the order emitted
    drop_emitted,   \* what the capability calls of Drop appended: <<capability, bytes>>
    \* --- TtyChange (SaveCursor, EnterCaMode)
    change,         \* None, or Some of the change from_terminfo built: [name, apply, restore]
    chg_src,        \* the database handed to the last from_terminfo
    chg_cur,        \* the database the caller holds now
    chg_file,       \* the bytes written to the tty file
    chg_call,       \* the last call: <<"from_terminfo", name>>, <<"apply">>, ...
    chg_result,     \* what apply or revert returned
    chg_calls       \* the number of apply and revert calls made

vars == <<csi_bytes, csi_result, csi_pc, list_data, list_csi, list_result, list_pc,
          db, mappings, input, overflow_checks, events, ppc,
          items, issued, removed, alloc_items, alloc_issued,
          mod_a, mod_b, mod_out, mod_pc,
          anchors, size, anchor_handles, winsize, ws_checks, ws_rect,
          tw_db, buffer, sink, emitted, tw_calls, tw_call, tw_last,
          tty_attrs, term_call, term_result, term_arg,
          sel_pc, orig_termios, sel_db, sel_buffer, tty_out, cursor_pos, frames,
          applied, drop_emitted,
          change, chg_src, chg_cur, chg_file, chg_call, chg_result, chg_calls>>

csi_vars == <<csi_bytes, csi_result, csi_pc>>
list_vars == <<list_data, list_csi, list_result, list_pc>>
parser_vars == <<db, mappings, input, overflow_checks, events, ppc>>
any_vars == <<items, issued, removed>>
alloc_vars == <<alloc_items, alloc_issued>>
arena_vars == <<any_vars, alloc_vars>>
mod_vars == <<mod_a, mod_b, mod_out, mod_pc>>
ws_vars == <<winsize, ws_checks, ws_rect>>
anchors_vars == <<anchors, size, anchor_handles, ws_vars>>
tw_vars == <<tw_db, buffer, sink, emitted, tw_calls, tw_call, tw_last>>
term_vars == <<tty_attrs, term_call, term_result, term_arg>>
sel_vars == <<sel_pc, orig_termios, sel_db, sel_buffer, tty_out, cursor_pos, frames,
              applied, drop_emitted>>
chg_vars == <<change, chg_src, chg_cur, chg_file, chg_call, chg_result, chg_calls>>
tty_vars == <<term_vars, sel_vars, chg_vars>>
lib_vars == <<csi_vars, list_vars, parser_vars, arena_vars, mod_vars, anchors_vars, tw_vars>>

----------------------------------------------------------------------------
(* Options and byte strings *)

None == <<>>
Some(x) == <<x>>

\* All sequences over S of length at most n.
AllSeqs(S, n) == UNION {[1..k -> S] : k \in 0..n}

\* slice.get(from..) with a 0-based start: None when from > len.
get_from(bytes, from) ==
    IF from > Len(bytes) THEN None ELSE Some(SubSeq(bytes, from + 1, Len(bytes)))

ESC == 27
LBRACKET == 91
SEMICOLON == 59
TILDE == 126

\* slice.split(|b| *b == b';'): the segments between the separators, in order.
\* An empty slice gives one empty segment.
RECURSIVE split_from(_, _, _)
split_from(bytes, k, cur) ==
    IF k > Len(bytes) THEN <<cur>>
    ELSE IF bytes[k] = SEMICOLON THEN <<cur>> \o split_from(bytes, k + 1, <<>>)
    ELSE split_from(bytes, k + 1, Append(cur, bytes[k]))

split(bytes) == split_from(bytes, 1, <<>>)

\* iterator.nth(n), 0-based: None when the iterator has fewer than n+1 items.
nth(segs, n) == IF n + 1 > Len(segs) THEN None ELSE Some(segs[n + 1])

----------------------------------------------------------------------------
(* CSICommand *)

CSICommand(p, i, f) == [parameter_bytes |-> p, intermediate_bytes |-> i, final_byte |-> f]

is_intermediate(byte) == byte \in 32..47      \* (0x20..=0x2F).contains(byte)
is_final(byte) == byte \in 64..126            \* (0x40..=0x7E).contains(byte)
is_parameter(byte) == byte \in 48..63         \* (0x30..=0x3F).contains(byte)

\* The for loop of CSICommand::parse from position k (1-based) with the loop's
\* locals. It returns None or Some([param_end, inter_end, final_byte]); leaving
\* the loop at the end of the slice leaves final_byte = 0, which is None.
RECURSIVE csi_scan(_, _, _, _, _)
csi_scan(bytes, k, interm, param_end, inter_end) ==
    IF k > Len(bytes) THEN None
    ELSE LET byte == bytes[k] IN
      IF ~interm
      THEN IF is_intermediate(byte)
             THEN csi_scan(bytes, k + 1, TRUE, param_end, param_end + 1)
           ELSE IF is_final(byte)
             THEN Some([param_end |-> param_end, inter_end |-> param_end, final_byte |-> byte])
           ELSE IF ~is_parameter(byte)
             THEN None
           ELSE csi_scan(bytes, k + 1, FALSE, param_end + 1, inter_end)
      ELSE IF is_final(byte)
             THEN Some([param_end |-> param_end, inter_end |-> inter_end, final_byte |-> byte])
           ELSE IF ~is_intermediate(byte)
             THEN None
           ELSE csi_scan(bytes, k + 1, TRUE, param_end, inter_end + 1)

\* CSICommand::parse without the `if skipped {2}` of the consumed length.
CSICommand_parse_short(bytes0) ==
    LET skipped == Len(bytes0) >= 2 /\ SubSeq(bytes0, 1, 2) = <<ESC, LBRACKET>>
        bytes == IF skipped THEN SubSeq(bytes0, 3, Len(bytes0)) ELSE bytes0
        r == csi_scan(bytes, 1, FALSE, 0, 0)
    IN  IF r = None THEN None
        ELSE Some([cmd |-> CSICommand(SubSeq(bytes, 1, r[1].param_end),
                                      SubSeq(bytes, r[1].param_end + 1, r[1].inter_end),
                                      r[1].final_byte),
                   len |-> r[1].inter_end + 1])

\* CSICommand::parse: Option<(Self, usize)> as None or Some([cmd, len]).
CSICommand_parse(bytes0) ==
    LET skipped == Len(bytes0) >= 2 /\ SubSeq(bytes0, 1, 2) = <<ESC, LBRACKET>>
        bytes == IF skipped THEN SubSeq(bytes0, 3, Len(bytes0)) ELSE bytes0
        r == csi_scan(bytes, 1, FALSE, 0, 0)
    IN  IF r = None THEN None
        ELSE Some([cmd |-> CSICommand(SubSeq(bytes, 1, r[1].param_end),
                                      SubSeq(bytes, r[1].param_end + 1, r[1].inter_end),
                                      r[1].final_byte),
                   len |-> r[1].inter_end + 1 + (IF skipped THEN 2 ELSE 0)])

----------------------------------------------------------------------------
(* CSIList *)

\* csi_item_matches comparing the whole parameter bytes for '~', not the first segment.
csi_item_matches_whole(csi, item) ==
    IF csi.final_byte \in 65..90
      THEN csi.final_byte = item.final_byte
    ELSE IF csi.final_byte = TILDE
      THEN item.final_byte = TILDE /\ csi.parameter_bytes = item.parameter_bytes
    ELSE FALSE

\* The closure of match_csi: does the stored command `item` match the incoming `csi`?
csi_item_matches(csi, item) ==
    IF csi.final_byte \in 65..90                         \* b'A'..=b'Z'
      THEN csi.final_byte = item.final_byte
    ELSE IF csi.final_byte = TILDE
      THEN IF item.final_byte = TILDE
             THEN LET first == nth(split(csi.parameter_bytes), 0)
                  IN  IF first = None THEN FALSE ELSE first[1] = item.parameter_bytes
             ELSE FALSE
    ELSE FALSE

\* data.iter().find(..) from position k on.
RECURSIVE csi_find(_, _, _)
csi_find(data, csi, k) ==
    IF k > Len(data) THEN None
    ELSE IF csi_item_matches(csi, data[k][1]) THEN Some(data[k])
    ELSE csi_find(data, csi, k + 1)

\* CSIList::match_csi: Option<u32>.
match_csi(data, csi) ==
    LET hit == csi_find(data, csi, 1)
    IN  IF hit = None THEN None ELSE Some(hit[1][2])

\* CSIList::push
CSIList_push(data, csi, codepoint) == Append(data, <<csi, codepoint>>)

----------------------------------------------------------------------------
(* Modifiers and key events *)

Modifiers_NONE == 0
Modifiers_SHIFT == 1
Modifiers_ALT == 2
Modifiers_CTRL == 4

\* KeyEvent { key_code, mods, ..Default::default() }: the event type defaults to Repeat.
KeyEvent(code, mods) == [key_code |-> code, mods |-> mods, event_type |-> "Repeat"]

\* The result of one u8 operation whose mathematical value is x: in range it is x;
\* out of range the build decides: a panic with overflow checks, x mod 2^8 without.
u8(x, checks) ==
    IF x \in 0..255 THEN [panic |-> FALSE, val |-> x]
    ELSE IF checks THEN [panic |-> TRUE, val |-> 0]
    ELSE [panic |-> FALSE, val |-> x % 256]

\* The for loop of the block 'm over bytes.iter().rev().enumerate(), from the
\* 0-based position i with the accumulator num. It ends "none" (break 'm with
\* Modifiers::NONE), "panic", or "num" with the final accumulator.
RECURSIVE mods_digits(_, _, _, _)
mods_digits(bytes, i, num, checks) ==
    IF i >= Len(bytes) THEN [kind |-> "num", num |-> num]
    ELSE LET dig == bytes[Len(bytes) - i] IN
      IF dig \notin 48..57                          \* !(48..58).contains(dig)
        THEN [kind |-> "none", num |-> 0]
      ELSE LET pow == u8(10 ^ i, checks)            \* 10_u8.pow(i as u32)
               mul == u8((dig - 48) * pow.val, checks)
               add == u8(num + mul.val, checks)
           IN  IF pow.panic \/ mul.panic \/ add.panic
                 THEN [kind |-> "panic", num |-> 0]
               ELSE mods_digits(bytes, i + 1, add.val, checks)

\* The block 'm of InputParser::parse: the modifiers of a matched command, as
\* [panic, mods].
decode_mods(command, checks) ==
    IF command.final_byte \in 65..90 \/ command.final_byte = TILDE
    THEN LET seg == nth(split(command.parameter_bytes), 1) IN
         IF seg = None THEN [panic |-> FALSE, mods |-> Modifiers_NONE]
         ELSE IF Len(seg[1]) > 3 THEN [panic |-> FALSE, mods |-> Modifiers_NONE]
         ELSE LET d == mods_digits(seg[1], 0, 0, checks) IN
              IF d.kind = "none" THEN [panic |-> FALSE, mods |-> Modifiers_NONE]
              ELSE IF d.kind = "panic" THEN [panic |-> TRUE, mods |-> 0]
              ELSE LET sub == u8(d.num - 1, checks)          \* Modifiers::new(num-1)
                   IN  [panic |-> sub.panic, mods |-> sub.val]
    ELSE [panic |-> FALSE, mods |-> Modifiers_NONE]

----------------------------------------------------------------------------
(* u32 bit operations *)

RECURSIVE bit_or(_, _)
bit_or(a, b) ==
    IF a = 0 THEN b
    ELSE IF b = 0 THEN a
    ELSE (IF a % 2 = 1 \/ b % 2 = 1 THEN 1 ELSE 0) + 2 * bit_or(a \div 2, b \div 2)

\* a & !m on 32 bits, bit by bit (the complement of m is never built: it has
\* the high bits set, which a & clears again, a being a byte).
RECURSIVE and_not(_, _)
and_not(a, m) ==
    IF a = 0 THEN 0
    ELSE (IF a % 2 = 1 /\ m % 2 = 0 THEN 1 ELSE 0) + 2 * and_not(a \div 2, m \div 2)

\* x << n on 32 bits. The operands of parse are byte payloads (at most 6 bits)
\* shifted by at most 20, so no bit is shifted out.
shl32(x, n) == x * 2 ^ n

\* (b as u32 & !(0b11 << 6)): the payload of a continuation byte
cont_bits(b) == and_not(b, shl32(3, 6))

----------------------------------------------------------------------------
(* Modifiers as a bit set *)

Modifiers_SUPER == 8
Modifiers_HYPER == 16
Modifiers_META == 32
Modifiers_CAPS_LOCK == 64
Modifiers_NUM_LOCK == 128

RECURSIVE bit_and(_, _)
bit_and(a, b) ==
    IF a = 0 \/ b = 0 THEN 0
    ELSE (IF a % 2 = 1 /\ b % 2 = 1 THEN 1 ELSE 0) + 2 * bit_and(a \div 2, b \div 2)

RECURSIVE bit_xor(_, _)
bit_xor(a, b) ==
    IF a = 0 THEN b
    ELSE IF b = 0 THEN a
    ELSE (IF a % 2 # b % 2 THEN 1 ELSE 0) + 2 * bit_xor(a \div 2, b \div 2)

\* !a on the w low bits
RECURSIVE bit_not(_, _)
bit_not(a, w) ==
    IF w = 0 THEN 0
    ELSE (IF a % 2 = 0 THEN 1 ELSE 0) + 2 * bit_not(a \div 2, w - 1)

\* check_bit_at: byte << (7-n) >> 7 == 1 on a u8 (the shift drops the bits that
\* leave the byte).
check_bit_at(byte, n) == ((byte * 2 ^ (7 - n)) % 256) \div 2 ^ 7 = 1

shift_pressed(self) == check_bit_at(self, 0)
alt_pressed(self) == check_bit_at(self, 1)
ctrl_pressed(self) == check_bit_at(self, 2)
super_pressed(self) == check_bit_at(self, 3)
hyper_pressed(self) == check_bit_at(self, 4)
meta_pressed(self) == check_bit_at(self, 5)
caps_lock_pressed(self) == check_bit_at(self, 6)
num_lock_pressed(self) == check_bit_at(self, 7)

superset_of(self, other) == bit_or(self, other) = self

\* subset_of comparing with self instead of other.
subset_of_self(self, other) == bit_or(self, other) = self

subset_of(self, other) == bit_or(self, other) = other

bitand(self, rhs) == bit_and(self, rhs)
bitor(self, rhs) == bit_or(self, rhs)
bitxor(self, rhs) == bit_xor(self, rhs)
not(self) == bit_not(self, 8)

----------------------------------------------------------------------------
(* InputParser::parse *)

\* One pass of the while loop of InputParser::parse. The iterator has just
\* yielded the byte at the 1-based position i. The result says what the match
\* expression did: "push" an event, "continue", "break" or "panic"; `next` is
\* the position the iterator yields next.
Arm(kind, ev, next) == [kind |-> kind, ev |-> ev, next |-> next]

\* The arm b'[' | b'O' of the ESC arm (lines 152..206); i is the position of ESC.
esc_csi_arm(data, bytes, i, checks) ==
    LET next == bytes[i + 1]
        slice == get_from(bytes, i + 1)              \* input.get((i+1)..) after i = i + 1,
                                                     \* 0-based: ESC is at i - 1
    IN  IF slice # None
        THEN LET parsed == CSICommand_parse(slice[1]) IN
             IF parsed # None
             THEN LET command == parsed[1].cmd
                      after == i + 1 + parsed[1].len + 1      \* iter.nth(len)
                      code == match_csi(data, command)
                  IN  IF code # None
                      THEN LET m == decode_mods(command, checks) IN
                           IF m.panic THEN Arm("panic", KeyEvent(0, 0), after)
                           ELSE Arm("push", KeyEvent(code[1], m.mods), after)
                      ELSE Arm("continue", KeyEvent(0, 0), after)
             ELSE IF next = LBRACKET
                  THEN Arm("push", KeyEvent(LBRACKET, Modifiers_ALT), i + 2)
                  ELSE Arm("continue", KeyEvent(0, 0), i + 2)
        ELSE IF next = LBRACKET
             THEN Arm("push", KeyEvent(LBRACKET, Modifiers_ALT), i + 2)
             ELSE Arm("break", KeyEvent(0, 0), i + 1)

\* The arm 0x1B (lines 146..230).
esc_arm(data, bytes, i, checks) ==
    IF i + 1 <= Len(bytes)                           \* input.get(i+1) is Some
    THEN LET next == bytes[i + 1] IN
         IF next = LBRACKET \/ next = 79             \* b'[' | b'O'
           THEN esc_csi_arm(data, bytes, i, checks)
         ELSE IF next \in 32..126                    \* 0x20..=0x7E
           THEN Arm("push", KeyEvent(next, Modifiers_ALT), i + 2)
         ELSE Arm("push", KeyEvent(ESC, Modifiers_NONE), i + 1)
    ELSE Arm("push", KeyEvent(ESC, Modifiers_NONE), i + 1)

\* The arm 0xC2..=0xDF (lines 241..251).
utf8_arm2(bytes, i) ==
    LET byte2 == shl32(and_not(bytes[i], shl32(7, 5)), 6) IN
    IF i + 1 > Len(bytes) THEN Arm("continue", KeyEvent(0, 0), i + 1)
    ELSE Arm("push", KeyEvent(bit_or(byte2, cont_bits(bytes[i + 1])), Modifiers_NONE), i + 2)

\* The arm 0xE0..=0xEF (lines 253..268).
utf8_arm3(bytes, i) ==
    LET byte1 == shl32(and_not(bytes[i], shl32(15, 4)), 12) IN
    IF i + 1 > Len(bytes) THEN Arm("continue", KeyEvent(0, 0), i + 1)
    ELSE IF i + 2 > Len(bytes) THEN Arm("continue", KeyEvent(0, 0), i + 2)
    ELSE LET byte2 == shl32(cont_bits(bytes[i + 1]), 6)
             byte3 == cont_bits(bytes[i + 2])
         IN  Arm("push", KeyEvent(bit_or(bit_or(byte3, byte2), byte1), Modifiers_NONE), i + 3)

\* The arm 0xF0..=0xF4 (lines 270..288).
utf8_arm4(bytes, i) ==
    LET byte1 == shl32(and_not(bytes[i], shl32(31, 3)), 20) IN
    IF i + 1 > Len(bytes) THEN Arm("continue", KeyEvent(0, 0), i + 1)
    ELSE IF i + 2 > Len(bytes) THEN Arm("continue", KeyEvent(0, 0), i + 2)
    ELSE IF i + 3 > Len(bytes) THEN Arm("continue", KeyEvent(0, 0), i + 3)
    ELSE LET byte2 == shl32(cont_bits(bytes[i + 1]), 12)
             byte3 == shl32(cont_bits(bytes[i + 2]), 6)
             byte4 == cont_bits(bytes[i + 3])
         IN  Arm("push",
                 KeyEvent(bit_or(bit_or(bit_or(byte1, byte2), byte3), byte4), Modifiers_NONE),
                 i + 4)

\* The match on the byte at position i (lines 145..291).
parse_arm(data, bytes, i, checks) ==
    LET byte == bytes[i] IN
    IF byte = ESC THEN esc_arm(data, bytes, i, checks)
    ELSE IF byte \in 0..127 THEN Arm("push", KeyEvent(byte, Modifiers_NONE), i + 1)
    ELSE IF byte \in 128..191 THEN Arm("continue", KeyEvent(0, 0), i + 1)
    ELSE IF byte \in 194..223 THEN utf8_arm2(bytes, i)
    ELSE IF byte \in 224..239 THEN utf8_arm3(bytes, i)
    ELSE IF byte \in 240..244 THEN utf8_arm4(bytes, i)
    ELSE Arm("continue", KeyEvent(0, 0), i + 1)      \* 0xC0..=0xC1 | 0xF5..=0xFF

\* parse_loop without iter.nth(len) and iter.next(): every arm consumes one byte.
RECURSIVE parse_loop_no_skip(_, _, _, _, _)
parse_loop_no_skip(data, bytes, i, checks, acc) ==
    IF i > Len(bytes) THEN [panic |-> FALSE, events |-> acc]
    ELSE LET a == parse_arm(data, bytes, i, checks) IN
         IF a.kind = "panic" THEN [panic |-> TRUE, events |-> <<>>]
         ELSE IF a.kind = "break" THEN [panic |-> FALSE, events |-> acc]
         ELSE IF a.kind = "push"
           THEN parse_loop_no_skip(data, bytes, i + 1, checks, Append(acc, a.ev))
         ELSE parse_loop_no_skip(data, bytes, i + 1, checks, acc)

\* The while loop from position i with the events pushed so far.
RECURSIVE parse_loop(_, _, _, _, _)
parse_loop(data, bytes, i, checks, acc) ==
    IF i > Len(bytes) THEN [panic |-> FALSE, events |-> acc]
    ELSE LET a == parse_arm(data, bytes, i, checks) IN
         IF a.kind = "panic" THEN [panic |-> TRUE, events |-> <<>>]
         ELSE IF a.kind = "break" THEN [panic |-> FALSE, events |-> acc]
         ELSE IF a.kind = "push" THEN parse_loop(data, bytes, a.next, checks, Append(acc, a.ev))
         ELSE parse_loop(data, bytes, a.next, checks, acc)

\* InputParser::parse: [panic, events].
InputParser_parse(data, bytes, checks) == parse_loop(data, bytes, 1, checks, <<>>)

----------------------------------------------------------------------------
(* InputParser::push_from_terminfo *)

\* One element of the table that push_from_terminfo walks: a literal handed to
\* the call_multiple! closure, or a capability handed to push_from_db!.
lit_source(bytes, code) == [kind |-> "lit", bytes |-> bytes, cap |-> "", code |-> code]
cap_source(name, code) == [kind |-> "cap", bytes |-> <<>>, cap |-> name, code |-> code]

\* The four lists of push_from_terminfo, in the order the code walks them.
KeySources ==
    <<
       lit_source(<<27, 50, 55, 117>>, 57344),
       lit_source(<<27, 49, 51, 117>>, 57345),
       lit_source(<<27, 57, 117>>, 57346),
       cap_source("Tab", 57347),
       cap_source("KeyBackspace", 57348),
       cap_source("KeyIc", 57349),
       cap_source("KeyDc", 57350),
       cap_source("KeyLeft", 57351),
       cap_source("KeyRight", 57352),
       cap_source("KeyUp", 57353),
       cap_source("KeyDown", 57354),
       cap_source("KeyPPage", 57355),
       cap_source("KeyNPage", 57356),
       cap_source("KeyHome", 57357),
       cap_source("CursorHome", 57357),
       cap_source("KeyEnd", 57358),
       lit_source(<<27, 53, 55, 51, 53, 56, 117>>, 57358),
       lit_source(<<27, 53, 55, 51, 53, 57, 117>>, 57359),
       lit_source(<<27, 53, 55, 51, 54, 48, 117>>, 57360),
       lit_source(<<27, 53, 55, 51, 54, 49, 117>>, 57361),
       lit_source(<<27, 53, 55, 51, 54, 50, 117>>, 57362),
       lit_source(<<27, 53, 55, 51, 54, 51, 117>>, 57363),
       cap_source("KeyF1", 57364),
       cap_source("KeyF2", 57365),
       cap_source("KeyF3", 57366),
       cap_source("KeyF4", 57367),
       cap_source("KeyF5", 57368),
       cap_source("KeyF6", 57369),
       cap_source("KeyF7", 57370),
       cap_source("KeyF8", 57371),
       cap_source("KeyF9", 57372),
       cap_source("KeyF10", 57373),
       cap_source("KeyF11", 57374),
       cap_source("KeyF12", 57375),
       cap_source("KeyF13", 57376),
       cap_source("KeyF14", 57377),
       cap_source("KeyF15", 57378),
       cap_source("KeyF16", 57379),
       cap_source("KeyF17", 57380),
       cap_source("KeyF18", 57381),
       cap_source("KeyF19", 57382),
       cap_source("KeyF20", 57383),
       cap_source("KeyF21", 57384),
       cap_source("KeyF22", 57385),
       cap_source("KeyF23", 57386),
       cap_source("KeyF24", 57387),
       cap_source("KeyF25", 57388),
       cap_source("KeyF26", 57389),
       cap_source("KeyF27", 57390),
       cap_source("KeyF28", 57391),
       cap_source("KeyF29", 57392),
       cap_source("KeyF30", 57393),
       cap_source("KeyF31", 57394),
       cap_source("KeyF32", 57395),
       cap_source("KeyF33", 57396),
       cap_source("KeyF34", 57397),
       cap_source("KeyF35", 57398)
    >>

CapNames == {KeySources[k].cap : k \in {j \in 1..Len(KeySources) : KeySources[j].kind = "cap"}}

\* The closure of call_multiple! (lines 66..69, 89..92): the literal is parsed
\* as it is; the entry it pushes, if any.
push_literal(bytes, code) ==
    LET parsed == CSICommand_parse(bytes)
    IN  IF parsed # None THEN Some(<<parsed[1].cmd, code>>) ELSE None

\* push_from_db! for one capability (lines 26..38): database[name] is None or
\* Some(bytes); the first two bytes are dropped and the rest parsed; the entry
\* it pushes, if any.
push_from_db(database, name, code) ==
    LET v == database[name] IN
    IF v = None THEN None
    ELSE LET slice == get_from(v[1], 2) IN
         IF slice = None THEN None
         ELSE LET parsed == CSICommand_parse(slice[1])
              IN  IF parsed # None THEN Some(<<parsed[1].cmd, code>>) ELSE None

\* InputParser::push_from_terminfo: the statements run in the order of
\* KeySources, each pushing its entry (if it has one) at the end of the list.
push_from_terminfo(data, database) ==
    LET pushes == [k \in 1..Len(KeySources) |->
                     IF KeySources[k].kind = "lit"
                       THEN push_literal(KeySources[k].bytes, KeySources[k].code)
                       ELSE push_from_db(database, KeySources[k].cap, KeySources[k].code)]
        hits == SelectSeq(pushes, LAMBDA o : o # None)
    IN  data \o [k \in 1..Len(hits) |-> hits[k][1]]

----------------------------------------------------------------------------
(* Capability databases *)

\* The database that holds exactly the given <<capability, value>> pairs.
DbOf(pairs) ==
    [c \in CapNames |->
        IF \E q \in pairs : q[1] = c
          THEN Some((CHOOSE q \in pairs : q[1] = c)[2])
          ELSE None]

\* A database with none of the key capabilities.
NoKeysDb == DbOf({})

\* The key capabilities of an xterm entry (application-mode arrows, SS3 F1..F4).
XtermDb ==
    DbOf({
      <<"Tab", <<9>>>>,
      <<"KeyBackspace", <<127>>>>,
      <<"KeyIc", <<27, 91, 50, 126>>>>,
      <<"KeyDc", <<27, 91, 51, 126>>>>,
      <<"KeyLeft", <<27, 79, 68>>>>,
      <<"KeyRight", <<27, 79, 67>>>>,
      <<"KeyUp", <<27, 79, 65>>>>,
      <<"KeyDown", <<27, 79, 66>>>>,
      <<"KeyPPage", <<27, 91, 53, 126>>>>,
      <<"KeyNPage", <<27, 91, 54, 126>>>>,
      <<"KeyHome", <<27, 79, 72>>>>,
      <<"CursorHome", <<27, 91, 72>>>>,
      <<"KeyEnd", <<27, 79, 70>>>>,
      <<"KeyF1", <<27, 79, 80>>>>,
      <<"KeyF2", <<27, 79, 81>>>>,
      <<"KeyF3", <<27, 79, 82>>>>,
      <<"KeyF4", <<27, 79, 83>>>>,
      <<"KeyF5", <<27, 91, 49, 53, 126>>>>,
      <<"KeyF6", <<27, 91, 49, 55, 126>>>>,
      <<"KeyF13", <<27, 91, 49, 59, 50, 80>>>>
    })

\* The key capabilities of a linux-console entry (CSI arrows, ESC [ [ A.. for F1..).
LinuxDb ==
    DbOf({
      <<"Tab", <<9>>>>,
      <<"KeyBackspace", <<127>>>>,
      <<"KeyIc", <<27, 91, 50, 126>>>>,
      <<"KeyDc", <<27, 91, 51, 126>>>>,
      <<"KeyLeft", <<27, 91, 68>>>>,
      <<"KeyRight", <<27, 91, 67>>>>,
      <<"KeyUp", <<27, 91, 65>>>>,
      <<"KeyDown", <<27, 91, 66>>>>,
      <<"KeyPPage", <<27, 91, 53, 126>>>>,
      <<"KeyNPage", <<27, 91, 54, 126>>>>,
      <<"KeyHome", <<27, 91, 49, 126>>>>,
      <<"CursorHome", <<27, 91, 72>>>>,
      <<"KeyEnd", <<27, 91, 52, 126>>>>,
      <<"KeyF1", <<27, 91, 91, 65>>>>,
      <<"KeyF2", <<27, 91, 91, 66>>>>,
      <<"KeyF5", <<27, 91, 91, 69>>>>,
      <<"KeyF6", <<27, 91, 49, 55, 126>>>>
    })

Dbs == {NoKeysDb, XtermDb, LinuxDb}

----------------------------------------------------------------------------
(* The inputs the model feeds to the decoder *)

MaxInputLen == 3
MaxCsiLen == 4
MaxListLen == 3

\* ESC [ O A ~ a ; 1
GenBytes == {27, 91, 79, 65, 126, 97, 59, 49}
GenInputs == AllSeqs(GenBytes, MaxInputLen)

\* ESC followed by a byte of every class, alone and followed by 'a'.
EscNextBytes == {0, 9, 31, 32, 48, 64, 65, 78, 80, 90, 92, 93, 97, 126, 127, 128, 208, 255}
EscInputs == {<<27, x>> : x \in EscNextBytes} \cup {<<27, x, 97>> : x \in EscNextBytes}

\* Second parameter segments: empty, "0", "1", "2", "5", "9", "05", "16", "005",
\* "128", "255", "256", "300", "999", "1:", ":", "1234", "0000".
SecondSegments ==
    { <<>>, <<48>>, <<49>>, <<50>>, <<53>>, <<57>>, <<48, 53>>, <<49, 54>>, <<48, 48, 53>>,
      <<49, 50, 56>>, <<50, 53, 53>>, <<50, 53, 54>>, <<51, 48, 48>>, <<57, 57, 57>>,
      <<49, 58>>, <<58>>, <<49, 50, 51, 52>>, <<48, 48, 48, 48>> }
ModInputs ==
    { <<27, intro>> \o first \o <<59>> \o second \o <<final>> :
        intro \in {91, 79}, first \in {<<>>, <<49>>, <<50>>},
        second \in SecondSegments, final \in {65, 80, 90, 126, 117} }

\* The Unicode scalar values whose encodings the model decodes.
SampleScalars ==
    { 128, 1041, 2047, 2048, 2693, 55295, 57344, 65535,
      65536, 128557, 262143, 262144, 1048576, 1114111 }

\* The well-formed UTF-8 encoding of the scalar value cp >= 0x80.
utf8_encode(cp) ==
    IF cp < 2048 THEN <<192 + (cp \div 64), 128 + (cp % 64)>>
    ELSE IF cp < 65536
      THEN <<224 + (cp \div 4096), 128 + ((cp \div 64) % 64), 128 + (cp % 64)>>
    ELSE <<240 + (cp \div 262144), 128 + ((cp \div 4096) % 64),
           128 + ((cp \div 64) % 64), 128 + (cp % 64)>>

Utf8Inputs == {utf8_encode(cp) : cp \in SampleScalars}

\* Lead bytes and incomplete prefixes followed by 'a', stray and unused bytes.
MalformedInputs ==
    { <<208>>, <<208, 97>>, <<194, 97>>, <<224, 97>>, <<224, 170>>, <<224, 170, 97>>,
      <<240, 97>>, <<240, 159, 97>>, <<240, 159, 152>>, <<240, 159, 152, 97>>,
      <<244, 97, 97>>, <<128, 97>>, <<191, 97>>, <<192, 97>>, <<193, 97>>, <<245, 97>>,
      <<255, 97>>, <<97, 208, 97, 97>> }

\* ESC[A..D, ESC[2~, ESCOP..S, ESC[Z, ESC[1;5A, ESC[2;5~, ESC[, ESCO, ESC[[,
\* ESC[ESC[A, and Down Down Enter.
TestInputs ==
    { <<27, 91, 65>>, <<27, 91, 66>>, <<27, 91, 67>>, <<27, 91, 68>>, <<27, 91, 50, 126>>,
      <<27, 79, 80>>, <<27, 79, 81>>, <<27, 79, 82>>, <<27, 79, 83>>, <<27, 91, 90>>,
      <<27, 91, 49, 59, 53, 65>>, <<27, 91, 50, 59, 53, 126>>, <<27, 91>>, <<27, 79>>,
      <<27, 91, 91>>, <<27, 91, 27, 91, 65>>,
      <<27, 91, 66, 27, 91, 66, 13>> }

\* Inputs made of whole units: 'a', NUL, DEL, ESC[A, ESCOP, ESC[1;5A, ESC[2~,
\* ESC[ #A (an intermediate byte) and ESC[;A, up to MaxUnits of them in a row.
MaxUnits == 3
UnitSamples ==
    { <<97>>, <<0>>, <<127>>, <<27, 91, 65>>, <<27, 79, 80>>, <<27, 91, 49, 59, 53, 65>>,
      <<27, 91, 50, 126>>, <<27, 91, 32, 35, 65>>, <<27, 91, 59, 65>> }
RECURSIVE UnitRuns(_)
UnitRuns(n) ==
    IF n = 0 THEN {<<>>}
    ELSE LET shorter == UnitRuns(n - 1)
         IN  shorter \cup {r \o u : r \in shorter, u \in UnitSamples}
UnitInputs == UnitRuns(MaxUnits)

Inputs ==
    GenInputs \cup EscInputs \cup ModInputs \cup Utf8Inputs \cup MalformedInputs
        \cup TestInputs \cup UnitInputs

\* The slices handed to CSICommand::parse: every sequence of at most MaxCsiLen
\* bytes over ESC, '[' and the bounds of the three byte classes, and the slices
\* of tests::test_csi_parser.
CsiBytes == {27, 91, 31, 32, 47, 48, 63, 64, 126, 127}
CsiTestInputs ==
    { <<27, 91, 49, 48, 57, 59, 49, 48, 57, 35, 35, 35, 72, 97, 115, 100>>,
      <<49, 48, 57, 59, 49, 48, 57, 35, 35, 35, 72, 97, 115, 100>>,
      <<27, 91, 66>>, <<27, 91, 35, 35, 35, 126>>, <<50, 126>> }
CsiInputs == AllSeqs(CsiBytes, MaxCsiLen) \cup CsiTestInputs

\* The commands stored in a CSIList and the commands looked up in it.
StoredCsis ==
    { CSICommand(<<50>>, <<>>, 126), CSICommand(<<>>, <<>>, 126),
      CSICommand(<<>>, <<>>, 65), CSICommand(<<49>>, <<>>, 66) }
StoredCodes == {57349, 57353}
IncomingCsis ==
    { CSICommand(<<50, 59, 53>>, <<>>, 126), CSICommand(<<50>>, <<>>, 126),
      CSICommand(<<>>, <<>>, 126), CSICommand(<<59, 53>>, <<>>, 126),
      CSICommand(<<50, 50>>, <<>>, 126), CSICommand(<<51>>, <<>>, 126),
      CSICommand(<<50>>, <<35>>, 126),
      CSICommand(<<>>, <<>>, 65), CSICommand(<<49, 59, 53>>, <<>>, 65),
      CSICommand(<<>>, <<35>>, 66), CSICommand(<<>>, <<>>, 90),
      CSICommand(<<>>, <<>>, 117), CSICommand(<<50>>, <<>>, 91), CSICommand(<<>>, <<>>, 64) }

----------------------------------------------------------------------------
(* AnyArena *)

MaxSlots == 2
MaxGeneration == 1
Values == {10, 11}

\* ArenaItemAny::new
ArenaItemAny_new(item) == [inner |-> item, alive |-> TRUE, generation |-> 0]

\* ArenaHandleAny::new; the index is 0-based as in the code.
ArenaHandleAny_new(index, generation) == [index |-> index, generation |-> generation]

\* The scan of insert without its `break`: the last dead slot wins.
first_dead_last(slots) ==
    LET dead == {i \in 1..Len(slots) : ~slots[i].alive}
    IN  IF dead = {} THEN [found |-> FALSE, index |-> 0]
        ELSE [found |-> TRUE, index |-> (CHOOSE i \in dead : \A j \in dead : i >= j) - 1]

\* The scan of insert (lines 43..51): the 0-based index of the first slot that is
\* not alive, as [found, index].
first_dead(slots) ==
    LET dead == {i \in 1..Len(slots) : ~slots[i].alive}
    IN  IF dead = {} THEN [found |-> FALSE, index |-> 0]
        ELSE [found |-> TRUE, index |-> (CHOOSE i \in dead : \A j \in dead : i <= j) - 1]

\* reuse_slot without `it.generation += 1`.
reuse_slot_same_generation(it, item) ==
    [inner |-> item, alive |-> TRUE, generation |-> it.generation]

\* The slot insert writes when it reuses one (lines 56..59).
reuse_slot(it, item) == [inner |-> item, alive |-> TRUE, generation |-> it.generation + 1]

\* AnyArena::insert: the new slots and the handle returned.
AnyArena_insert(slots, item) ==
    LET scan == first_dead(slots) IN
    IF ~scan.found
      THEN [items |-> Append(slots, ArenaItemAny_new(item)),
            handle |-> ArenaHandleAny_new(Len(slots) + 1 - 1, 0)]
      ELSE LET it == reuse_slot(slots[scan.index + 1], item)
           IN  [items |-> [slots EXCEPT ![scan.index + 1] = it],
                handle |-> ArenaHandleAny_new(scan.index, it.generation)]

\* AnyArena::get without `&& item.alive`.
AnyArena_get_ignoring_alive(slots, handle) ==
    IF handle.index + 1 > Len(slots) THEN None
    ELSE LET item == slots[handle.index + 1] IN
         IF item.generation = handle.generation THEN Some(item.inner) ELSE None

\* AnyArena::get (and get_mut, which differs only in the borrow): Option<&T>.
AnyArena_get(slots, handle) ==
    IF handle.index + 1 > Len(slots) THEN None
    ELSE LET item == slots[handle.index + 1] IN
         IF item.generation = handle.generation /\ item.alive THEN Some(item.inner) ELSE None

\* The element types in play: the arena is AnyArena::new::<usize>() as in the
\* test; an ArenaHandleAny<u8> is one an AnyArena of u8 returned from insert.
ElementTypes == {"usize", "u8"}

\* AnyVec.type_id as AnyArena::new::<usize>() sets it.
AnyArena_type_id == "usize"

\* AnyVec::slice::<T> and slice_mut::<T>: whether the type check panics
\* ("Value of another type detected while dereferencing").
AnyVec_slice_panics(type_id, T) == type_id # T

\* AnyArena::get::<T> and get_mut::<T> with the type check of the slice they
\* read: [panic, value].
AnyArena_get_typed(type_id, slots, T, handle) ==
    IF AnyVec_slice_panics(type_id, T)
      THEN [panic |-> TRUE, value |-> None]
      ELSE [panic |-> FALSE, value |-> AnyArena_get(slots, handle)]

\* AnyArena::remove, for a handle whose index is in the slice (an index outside
\* it panics): the slot at the handle's index is marked dead.
AnyArena_remove(slots, handle) == [slots EXCEPT ![handle.index + 1].alive = FALSE]

----------------------------------------------------------------------------
(* ArenaAlloc *)

MaxAllocSlots == 4

\* ArenaItem::new
ArenaItem_new(item) == [inner |-> item, alive |-> TRUE, generation |-> 0]

\* ArenaHandle::new; the index is 0-based as in the code.
ArenaHandle_new(index, generation) == [index |-> index, generation |-> generation]

\* The scan of ArenaAlloc::insert (lines 43..51), as [found, index].
alloc_scan(slots) ==
    LET dead == {i \in 1..Len(slots) : ~slots[i].alive}
    IN  IF dead = {} THEN [found |-> FALSE, index |-> 0]
        ELSE [found |-> TRUE, index |-> (CHOOSE i \in dead : \A j \in dead : i <= j) - 1]

\* ArenaAlloc::insert with ArenaHandle::new(self.items.len(), 0) after the push.
ArenaAlloc_insert_len_handle(slots, item) ==
    [items |-> Append(slots, ArenaItem_new(item)),
     handle |-> ArenaHandle_new(Len(slots) + 1, 0)]

\* ArenaAlloc::insert: the new slots and the handle returned.
ArenaAlloc_insert(slots, item) ==
    LET scan == alloc_scan(slots) IN
    IF ~scan.found
      THEN [items |-> Append(slots, ArenaItem_new(item)),
            handle |-> ArenaHandle_new(Len(slots) + 1 - 1, 0)]
      ELSE LET it == slots[scan.index + 1]
               generation == it.generation + 1
           IN  [items |-> [slots EXCEPT ![scan.index + 1] =
                             [inner |-> item, alive |-> TRUE, generation |-> generation]],
                handle |-> ArenaHandle_new(scan.index, generation)]

\* ArenaAlloc::get (and get_mut, which differs only in the borrow): the slot's
\* alive flag is not consulted.
ArenaAlloc_get(slots, handle) ==
    IF handle.index + 1 > Len(slots) THEN None
    ELSE LET item == slots[handle.index + 1] IN
         IF item.generation = handle.generation THEN Some(item.inner) ELSE None

----------------------------------------------------------------------------
(* TuiAnchors *)

\* isize and usize are modelled WordBits wide.
WordBits == 8
ISIZE_MIN == -(2 ^ (WordBits - 1))
ISIZE_MAX == 2 ^ (WordBits - 1) - 1
USIZE_MAX == 2 ^ WordBits - 1

Cords_new(col, row) == [col |-> col, row |-> row]

\* Rect::new with the corners exchanged.
Rect_new_swapped(upper_left, down_right) ==
    [upper_left |-> down_right, down_right |-> upper_left]

Rect_new(upper_left, down_right) == [upper_left |-> upper_left, down_right |-> down_right]

\* Offset::Absolute(i)
Absolute(i) == [kind |-> "Absolute", i |-> i]

\* Offset::Relative(f). The f32 is one of the quarters q/4, written q: on them
\* and on cell counts of at most WordBits bits the f32 operations of
\* raw_get_cords_of_anchor are exact.
Relative(q) == [kind |-> "Relative", q |-> q]

Anchor_new(col_offset, from_right, row_offset, from_down) ==
    [col_offset |-> col_offset, from_right |-> from_right,
     row_offset |-> row_offset, from_down |-> from_down]
new_abs_from_upper_left(col, row) == Anchor_new(Absolute(col), FALSE, Absolute(row), FALSE)
new_abs_from_down_right(col, row) == Anchor_new(Absolute(col), TRUE, Absolute(row), TRUE)
new_rel_from_down_right(col, row) == Anchor_new(Relative(col), TRUE, Relative(row), TRUE)
new_rel_from_upper_left(col, row) == Anchor_new(Relative(col), FALSE, Relative(row), FALSE)

\* RectHandle::new, which is all add_rect does
RectHandle_new(upper_left, down_right) == [upper_left |-> upper_left, down_right |-> down_right]

\* Ord::clamp and f32::clamp
clamp(x, lo, hi) == IF x < lo THEN lo ELSE IF x > hi THEN hi ELSE x

\* usize::saturating_add_signed
saturating_add_signed(x, i) == clamp(x + i, 0, USIZE_MAX)

\* usize::saturating_sub
saturating_sub(x, y) == IF x < y THEN 0 ELSE x - y

\* -i on an isize: ISIZE_MIN has no negative; the build decides between a panic
\* and the wrapped value, which is ISIZE_MIN again.
isize_neg(i, checks) ==
    IF i # ISIZE_MIN THEN [panic |-> FALSE, val |-> -i]
    ELSE IF checks THEN [panic |-> TRUE, val |-> 0]
    ELSE [panic |-> FALSE, val |-> ISIZE_MIN]

\* (lo as f32 + span as f32 * f).clamp(0., max as f32) as usize for f = q/4: the
\* value in quarters, clamped, and truncated to a whole cell.
relative_cord(lo, span, q, max) == clamp(4 * lo + span * q, 0, 4 * max) \div 4

\* One of the two `match` expressions of raw_get_cords_of_anchor (lines 49..65
\* for the column, 66..82 for the row; they differ in the field read only):
\* offset is the axis' offset, lo and hi the rectangle's coordinates on the
\* axis, max the viewport's. Both matches read from_right in their Absolute arms
\* and from_down in their Relative arms.
axis_cord(offset, from_right, from_down, lo, hi, max, checks) ==
    IF offset.kind = "Absolute"
    THEN IF ~from_right
           THEN [panic |-> FALSE, val |-> clamp(saturating_add_signed(lo, offset.i), 0, max)]
           ELSE LET neg == isize_neg(offset.i, checks) IN
                [panic |-> neg.panic,
                 val |-> clamp(saturating_add_signed(hi, neg.val), 0, max)]
    ELSE IF ~from_down
           THEN [panic |-> FALSE,
                 val |-> relative_cord(lo, saturating_sub(hi, lo), offset.q, max)]
           ELSE [panic |-> FALSE,
                 val |-> relative_cord(lo, saturating_sub(hi, lo), 4 - offset.q, max)]

\* raw_get_cords_of_anchor: [panic, cords]. It panics when the handle does not
\* resolve (the unwrap), when the resolution of a corner does, or on -i.
NoCords == Cords_new(0, 0)
RECURSIVE raw_get_cords_of_anchor(_, _, _, _)
raw_get_cords_of_anchor(slots, viewport, handle, checks) ==
    LET entry == ArenaAlloc_get(slots, handle) IN
    IF entry = None THEN [panic |-> TRUE, cords |-> NoCords]
    ELSE
      LET anchor == entry[1][1]
          parent == entry[1][2]
          upper_left == raw_get_cords_of_anchor(slots, viewport, parent[1].upper_left, checks)
          down_right == raw_get_cords_of_anchor(slots, viewport, parent[1].down_right, checks)
      IN
      IF parent # None /\ (upper_left.panic \/ down_right.panic)
        THEN [panic |-> TRUE, cords |-> NoCords]
      ELSE
        LET rect == IF parent # None THEN Rect_new(upper_left.cords, down_right.cords)
                    ELSE viewport
            col == axis_cord(anchor.col_offset, anchor.from_right, anchor.from_down,
                             rect.upper_left.col, rect.down_right.col,
                             viewport.down_right.col, checks)
            row == axis_cord(anchor.row_offset, anchor.from_right, anchor.from_down,
                             rect.upper_left.row, rect.down_right.row,
                             viewport.down_right.row, checks)
        IN  IF col.panic \/ row.panic THEN [panic |-> TRUE, cords |-> NoCords]
            ELSE [panic |-> FALSE, cords |-> [row |-> row.val, col |-> col.val]]

get_cords_of_anchor(slots, viewport, handle, checks) ==
    raw_get_cords_of_anchor(slots, viewport, handle, checks)

\* The viewports of a tty of 80x24 and of 100x30 cells.
Viewport80x24 == Rect_new(Cords_new(0, 0), Cords_new(79, 23))
Viewport100x30 == Rect_new(Cords_new(0, 0), Cords_new(99, 29))
Viewports == {Viewport80x24, Viewport100x30}

\* a - b on usize: below zero the build decides between a panic and the value
\* wrapped around USIZE_MAX.
usize_sub(a, b, checks) ==
    IF a >= b THEN [panic |-> FALSE, val |-> a - b]
    ELSE IF checks THEN [panic |-> TRUE, val |-> 0]
    ELSE [panic |-> FALSE, val |-> a - b + USIZE_MAX + 1]

\* nix::libc::winsize, of which the conversion reads ws_col and ws_row
winsize_of(ws_col, ws_row) == [ws_col |-> ws_col, ws_row |-> ws_row]

\* <Rect as From<winsize>>::from: [panic, rect]
Rect_from_winsize(value, checks) ==
    LET col == usize_sub(value.ws_col, 1, checks)
        row == usize_sub(value.ws_row, 1, checks)
    IN  IF col.panic \/ row.panic
          THEN [panic |-> TRUE, rect |-> Rect_new(NoCords, NoCords)]
          ELSE [panic |-> FALSE, rect |-> Rect_new(Cords_new(0, 0), Cords_new(col.val, row.val))]

\* The window sizes converted: the u16 values that fit the modelled usize.
WinsizeCols == {0, 1, 2, 80, 100, 132, 200, USIZE_MAX}
WinsizeRows == {0, 1, 2, 24, 30, 43, 50, USIZE_MAX}

\* The anchors the model adds.
MaxAnchors == 3
AnchorSamples ==
    { new_abs_from_upper_left(5, 5),
      new_rel_from_down_right(2, 2),
      Anchor_new(Absolute(2), TRUE, Absolute(3), FALSE),
      Anchor_new(Absolute(-2), FALSE, Absolute(3), TRUE),
      new_abs_from_down_right(2, 3),
      new_abs_from_down_right(ISIZE_MIN, ISIZE_MAX) }

----------------------------------------------------------------------------
(* TerminfoWrapper *)

\* A capability value is a sequence of tokens: literal bytes and the parameter
\* operations "%i", "%p1", "%p2", "%d" of the terminfo language. The databases:
\* the kitty entry of tests::test, and an entry without the alternate screen.
lit(bytes) == [k \in 1..Len(bytes) |-> [op |-> "lit", byte |-> bytes[k]]]
op(name) == <<[op |-> name, byte |-> 0]>>
cup_value ==
    lit(<<27, 91>>) \o op("%i") \o op("%p1") \o op("%d") \o lit(<<59>>)
        \o op("%p2") \o op("%d") \o lit(<<72>>)
TtyCapNames ==
    {"cursor_address", "bell", "enter_bold_mode", "exit_attribute_mode",
     "enter_ca_mode", "exit_ca_mode", "cursor_invisible", "cursor_normal",
     "enter_reverse_mode", "save_cursor", "restore_cursor",
     "set_foreground", "set_background", "set_a_foreground", "set_a_background"}
TtyDbOf(pairs) ==
    [c \in TtyCapNames |->
        IF \E q \in pairs : q[1] = c THEN Some((CHOOSE q \in pairs : q[1] = c)[2]) ELSE None]
KittyDb ==
    TtyDbOf({ <<"cursor_address", cup_value>>,
              <<"bell", lit(<<7>>)>>,
              <<"enter_bold_mode", lit(<<27, 91, 49, 109>>)>>,
              <<"exit_attribute_mode", lit(<<27, 40, 66, 27, 91, 109>>)>>,
              <<"enter_ca_mode", lit(<<27, 91, 63, 49, 48, 52, 57, 104>>)>>,
              <<"exit_ca_mode", lit(<<27, 91, 63, 49, 48, 52, 57, 108>>)>>,
              <<"cursor_invisible", lit(<<27, 91, 63, 50, 53, 108>>)>>,
              <<"cursor_normal", lit(<<27, 91, 63, 50, 53, 104>>)>>,
              <<"enter_reverse_mode", lit(<<27, 91, 55, 109>>)>> })
NoAltScreenDb ==
    TtyDbOf({ <<"cursor_address", cup_value>>,
              <<"bell", lit(<<7>>)>>,
              <<"enter_bold_mode", lit(<<27, 91, 49, 109>>)>>,
              <<"exit_attribute_mode", lit(<<27, 91, 109>>)>>,
              <<"cursor_invisible", lit(<<27, 91, 63, 50, 53, 108>>)>>,
              <<"cursor_normal", lit(<<27, 91, 63, 50, 53, 104>>)>>,
              <<"enter_reverse_mode", lit(<<27, 91, 55, 109>>)>> })
\* An entry with the colour capabilities in their plain form, ESC[3%p1%dm and
\* ESC[4%p1%dm; the two entries above have no set_foreground and set_background.
color_value(digit) == lit(<<27, 91, digit>>) \o op("%p1") \o op("%d") \o lit(<<109>>)
LegacyColorDb ==
    TtyDbOf({ <<"cursor_address", cup_value>>,
              <<"bell", lit(<<7>>)>>,
              <<"set_foreground", color_value(51)>>,
              <<"set_background", color_value(52)>>,
              <<"set_a_foreground", color_value(51)>>,
              <<"set_a_background", color_value(52)>> })
TtyDbs == {KittyDb, NoAltScreenDb, LegacyColorDb}

\* The decimal digits of n >= 0, as bytes.
RECURSIVE decimal(_)
decimal(n) == IF n < 10 THEN <<48 + n>> ELSE Append(decimal(n \div 10), 48 + (n % 10))

\* terminfo::expand!(to, cap; params): the bytes the capability expands to,
\* from token k on, with the parameters and the stack of the expansion.
RECURSIVE expand_from(_, _, _, _)
expand_from(value, k, params, stack) ==
    IF k > Len(value) THEN <<>>
    ELSE LET t == value[k].op IN
      IF t = "%i" THEN expand_from(value, k + 1, [j \in DOMAIN params |-> params[j] + 1], stack)
      ELSE IF t = "%p1" THEN expand_from(value, k + 1, params, <<params[1]>> \o stack)
      ELSE IF t = "%p2" THEN expand_from(value, k + 1, params, <<params[2]>> \o stack)
      ELSE IF t = "%d" THEN decimal(Head(stack)) \o expand_from(value, k + 1, params, Tail(stack))
      ELSE <<value[k].byte>> \o expand_from(value, k + 1, params, stack)

\* expand! skipping the "%i" operations of the value.
expand_without_increment(value, params) ==
    expand_from(SelectSeq(value, LAMBDA t : t.op # "%i"), 1, params, <<>>)

expand(value, params) == expand_from(value, 1, params, <<>>)

Ok == [ok |-> TRUE]
CapabilityNotFound(cap_name) == [ok |-> FALSE, err |-> "CapabilityNotFound", cap_name |-> cap_name]

\* tty_expand_cap! answering Ok(()) without writing when the capability is absent.
tty_expand_cap_silent(database, to, cap, params) ==
    IF database[cap] = None THEN [result |-> Ok, to |-> to]
    ELSE [result |-> Ok, to |-> to \o expand(database[cap][1], params)]

\* tty_expand_cap!(db, to, cap; params): the value returned and the writer after
\* the call.
tty_expand_cap(database, to, cap, params) ==
    IF database[cap] = None THEN [result |-> CapabilityNotFound(cap), to |-> to]
    ELSE [result |-> Ok, to |-> to \o expand(database[cap][1], params)]

\* The capability methods the model calls, as <<capability, parameters>>.
move_cursor(row, col) == <<"cursor_address", <<row, col>>>>
bell == <<"bell", <<>>>>
enter_bold_mode == <<"enter_bold_mode", <<>>>>
exit_attribute_mode == <<"exit_attribute_mode", <<>>>>
enter_ca_mode == <<"enter_ca_mode", <<>>>>
CapCalls == {move_cursor(0, 0), bell, enter_bold_mode, exit_attribute_mode, enter_ca_mode}

\* The colour methods, as <<capability, parameters>>; color is a u8.
set_a_foreground(color) == <<"set_a_foreground", <<color>>>>
set_a_background(color) == <<"set_a_background", <<color>>>>
set_foreground(color) == <<"set_foreground", <<color>>>>
set_background(color) == <<"set_background", <<color>>>>
ColorSamples == {0, 7, 8, 255}
ColorCalls ==
    {set_foreground(c) : c \in ColorSamples} \cup {set_background(c) : c \in ColorSamples}
        \cup {set_a_foreground(9), set_a_background(9)}

\* The slices handed to append and write: "@" and "*".
AppendSlices == {<<64>>}
WriteSlices == {<<42>>}

\* The number of successful appending calls on one wrapper.
MaxEmits == 4

----------------------------------------------------------------------------
(* UnixTerminal *)

\* Termios: the four flag words as sets of flag names and the control
\* characters. The two bits of the character-size field are separate names:
\* CS5 is neither, CS6 the low one, CS7 the high one, CS8 and CSIZE both.
Termios(input_flags, output_flags, local_flags, control_flags, control_chars) ==
    [input_flags |-> input_flags, output_flags |-> output_flags,
     local_flags |-> local_flags, control_flags |-> control_flags,
     control_chars |-> control_chars]
CS6 == {"CSIZE_LOW"}
CS7 == {"CSIZE_HIGH"}
CS8 == {"CSIZE_LOW", "CSIZE_HIGH"}
CSIZE == {"CSIZE_LOW", "CSIZE_HIGH"}
ControlChars(vmin, vtime, vintr) == [VMIN |-> vmin, VTIME |-> vtime, VINTR |-> vintr]

IoOk == [ok |-> TRUE]
IoErr(call) == [ok |-> FALSE, err |-> "io", call |-> call]

\* The block of raw_mode with `| InputFlags::INLCR` in place of the second
\* `| InputFlags::ICRNL`.
raw_mode_block_with_inlcr(termios) ==
    Termios(termios.input_flags \ {"IGNBRK", "BRKINT", "PARMRK", "ISTRIP", "INLCR",
                                    "IGNCR", "ICRNL", "IXON"},
            termios.output_flags \ {"OPOST"},
            termios.local_flags \ {"ECHO", "ECHONL", "ICANON", "ISIG", "IEXTEN"},
            (termios.control_flags \ (CSIZE \cup {"PARENB"})) \cup CS8,
            [termios.control_chars EXCEPT !.VTIME = 0, !.VMIN = 1])

\* The block of raw_mode (lines 69..91): what it makes of the attributes read.
raw_mode_block(termios) ==
    Termios(termios.input_flags \ {"IGNBRK", "BRKINT", "PARMRK", "ISTRIP", "ICRNL",
                                    "IGNCR", "ICRNL", "IXON"},
            termios.output_flags \ {"OPOST"},
            termios.local_flags \ {"ECHO", "ECHONL", "ICANON", "ISIG", "IEXTEN"},
            (termios.control_flags \ (CSIZE \cup {"PARENB"})) \cup CS8,
            [termios.control_chars EXCEPT !.VTIME = 0, !.VMIN = 1])

\* tcsetattr(fd, arg, termios) on a tty whose attributes are attrs; set_ok says
\* whether the call succeeds: [result, attrs, arg].
tcsetattr(attrs, arg, termios, set_ok) ==
    IF set_ok THEN [result |-> IoOk, attrs |-> termios, arg |-> Some(arg)]
    ELSE [result |-> IoErr("tcsetattr"), attrs |-> attrs, arg |-> Some(arg)]

\* set_termios answering Ok(()) without the tcsetattr.
set_termios_without_write(attrs, termios, mode, set_ok) ==
    [result |-> IF set_ok THEN IoOk ELSE IoErr("tcsetattr"), attrs |-> attrs, arg |-> Some(mode)]

\* UnixTerminal::set_termios(termios, mode)
set_termios(attrs, termios, mode, set_ok) == tcsetattr(attrs, mode, termios, set_ok)

\* UnixTerminal::raw_mode on a tty whose attributes are attrs; get_ok and set_ok
\* say whether tcgetattr and tcsetattr succeed: [result, attrs, arg].
raw_mode(attrs, get_ok, set_ok) ==
    IF ~get_ok THEN [result |-> IoErr("tcgetattr"), attrs |-> attrs, arg |-> None]
    ELSE tcsetattr(attrs, "TCSAFLUSH", raw_mode_block(attrs), set_ok)

\* The attributes a tty is found with.
InputFlagSamples ==
    { {}, {"IUTF8"}, {"BRKINT", "ICRNL", "IXON", "IUTF8"}, {"INLCR", "IXOFF"},
      {"IGNBRK", "BRKINT", "PARMRK", "ISTRIP", "INLCR", "IGNCR", "ICRNL", "IXON", "IXANY"} }
OutputFlagSamples == { {}, {"ONLCR"}, {"OPOST", "ONLCR"} }
LocalFlagSamples ==
    { {}, {"ECHO", "ECHOE", "ECHOK", "ICANON", "ISIG", "IEXTEN"}, {"ECHONL", "NOFLSH", "TOSTOP"} }
ControlFlagSamples ==
    { CS8 \cup {"CREAD"}, CS7 \cup {"PARENB", "CREAD", "HUPCL"}, CS6 \cup {"PARENB"},
      {"CSTOPB"} }
ControlCharSamples == { ControlChars(1, 0, 3), ControlChars(0, 1, 3), ControlChars(4, 2, 0) }
TermiosSamples ==
    { Termios(i, o, l, c, cc) : i \in InputFlagSamples, o \in OutputFlagSamples,
                                l \in LocalFlagSamples, c \in ControlFlagSamples,
                                cc \in ControlCharSamples }
CookedTermios ==
    Termios({"BRKINT", "ICRNL", "IXON", "IUTF8"}, {"OPOST", "ONLCR"},
            {"ECHO", "ECHOE", "ECHOK", "ICANON", "ISIG", "IEXTEN"},
            CS8 \cup {"CREAD"}, ControlChars(1, 0, 3))

----------------------------------------------------------------------------
(* TtyChange *)

\* cap.as_ref(): the bytes of a capability value that has no parameter
\* operation.
as_ref(value) == [k \in 1..Len(value) |-> value[k].byte]

\* from_terminfo of change_from_terminfo! with `.unwrap_or_default()` on the
\* restore capability in place of `?`.
from_terminfo_apply_only(database, name, apply, restore) ==
    IF database[apply] = None THEN None
    ELSE Some([name |-> name,
               apply |-> as_ref(database[apply][1]),
               restore |-> IF database[restore] = None THEN <<>>
                           ELSE as_ref(database[restore][1])])

\* <$name as FromTerminfo>::from_terminfo (lines 36..41) for the change `name`
\* declared with the capabilities `apply` and `restore`.
from_terminfo(database, name, apply, restore) ==
    IF database[apply] = None THEN None
    ELSE IF database[restore] = None THEN None
    ELSE Some([name |-> name,
               apply |-> as_ref(database[apply][1]),
               restore |-> as_ref(database[restore][1])])

\* The two changes declared (lines 46..47).
SaveCursor_from_terminfo(database) ==
    from_terminfo(database, "SaveCursor", "save_cursor", "restore_cursor")
EnterCaMode_from_terminfo(database) ==
    from_terminfo(database, "EnterCaMode", "enter_ca_mode", "exit_ca_mode")

\* TtyChange::apply and TtyChange::revert (lines 27..32) on a file holding the
\* bytes `file`; write_ok says whether write_all succeeds: [result, file].
TtyChange_apply(chg, file, write_ok) ==
    IF write_ok THEN [result |-> IoOk, file |-> file \o chg.apply]
    ELSE [result |-> IoErr("write_all"), file |-> file]
TtyChange_revert(chg, file, write_ok) ==
    IF write_ok THEN [result |-> IoOk, file |-> file \o chg.restore]
    ELSE [result |-> IoErr("write_all"), file |-> file]

\* The databases from_terminfo is handed: every choice among the four
\* capabilities of the two changes.
ChangeCapValues ==
    { <<"save_cursor", lit(<<27, 55>>)>>, <<"restore_cursor", lit(<<27, 56>>)>>,
      <<"enter_ca_mode", lit(<<27, 91, 63, 49, 48, 52, 57, 104>>)>>,
      <<"exit_ca_mode", lit(<<27, 91, 63, 49, 48, 52, 57, 108>>)>> }
ChangeDbs == {TtyDbOf(pairs) : pairs \in SUBSET ChangeCapValues}

\* An entry with other bytes for the same capabilities (ESC [ s, ESC [ u,
\* ESC [ ? 4 7 h, ESC [ ? 4 7 l).
OtherChangeDb ==
    TtyDbOf({ <<"save_cursor", lit(<<27, 91, 115>>)>>, <<"restore_cursor", lit(<<27, 91, 117>>)>>,
              <<"enter_ca_mode", lit(<<27, 91, 63, 52, 55, 104>>)>>,
              <<"exit_ca_mode", lit(<<27, 91, 63, 52, 55, 108>>)>> })

\* The number of apply and revert calls on one change.
MaxChangeCalls == 2

----------------------------------------------------------------------------
(* Selector *)

\* main's items: "foo", "bar", "baz", "cow"
Selector_items == << <<102, 111, 111>>, <<98, 97, 114>>, <<98, 97, 122>>, <<99, 111, 119>> >>

\* The databases from_env finds.
SelectorDbs == {KittyDb, NoAltScreenDb}

\* The number of frames run() draws before the model stops reading keys.
MaxFrames == 2

\* TerminfoWrapper::flush_to(&mut tty); write_ok says whether write_all
\* succeeds. On an error the buffer is not cleared: [result, buffer, to].
flush_to(buf, to, write_ok) ==
    IF write_ok THEN [result |-> IoOk, buffer |-> <<>>, to |-> to \o buf]
    ELSE [result |-> IoErr("write_all"), buffer |-> buf, to |-> to]

\* The calls on self.terminfo of one pass of the drawing loop (lines 56..66),
\* from item i (0-based) on: capability calls and write_all(s).
RECURSIVE frame_calls(_, _, _)
frame_calls(its, i, cursor) ==
    IF i >= Len(its) THEN << move_cursor(cursor, 0) >>
    ELSE << move_cursor(i, 0) >>
           \o (IF i = cursor THEN << <<"enter_reverse_mode", <<>>>> >> ELSE <<>>)
           \o << <<"write_all", its[i + 1]>> >>
           \o (IF i = cursor THEN << exit_attribute_mode >> ELSE <<>>)
           \o frame_calls(its, i + 1, cursor)

\* The calls made one after the other, each unwrapped: [ok, to], where ok is
\* FALSE when one of them returned an error (and the unwrap panicked).
RECURSIVE run_calls(_, _, _, _)
run_calls(database, to, calls, k) ==
    IF k > Len(calls) THEN [ok |-> TRUE, to |-> to]
    ELSE IF calls[k][1] = "write_all"
      THEN run_calls(database, to \o calls[k][2], calls, k + 1)
    ELSE LET r == tty_expand_cap(database, to, calls[k][1], calls[k][2]) IN
         IF r.result.ok THEN run_calls(database, r.to, calls, k + 1)
         ELSE [ok |-> FALSE, to |-> r.to]

\* The match of lines 72..97 on one key event, abstracted to what it decides:
\* [stop, cursor].
on_key(key, cursor, n) ==
    IF key = "select" \/ key = "cancel" THEN [stop |-> TRUE, cursor |-> cursor]
    ELSE IF key = "up" THEN [stop |-> FALSE, cursor |-> saturating_sub(cursor, 1)]
    ELSE IF key = "down"
      THEN [stop |-> FALSE, cursor |-> IF cursor < n - 1 THEN cursor + 1 ELSE cursor]
    ELSE [stop |-> FALSE, cursor |-> cursor]

\* The for loop of lines 71..98 over the events of one read.
RECURSIVE on_keys(_, _, _, _)
on_keys(keys, k, cursor, n) ==
    IF k > Len(keys) THEN [stop |-> FALSE, cursor |-> cursor]
    ELSE LET r == on_key(keys[k], cursor, n) IN
         IF r.stop THEN r ELSE on_keys(keys, k + 1, r.cursor, n)

\* What one read gives after parsing.
KeyRuns ==
    { <<>>, <<"up">>, <<"down">>, <<"down", "down">>, <<"other">>, <<"down", "select">>,
      <<"select">>, <<"cancel">> }

\* <Selector as Drop>::drop (lines 115..122): every result is dropped.
\* [attrs, set, buffer, to, emitted].
Selector_drop(attrs, orig, database, buf, to, set_ok, write_ok) ==
    LET set == set_termios(attrs, orig, "TCSADRAIN", set_ok)
        ca == tty_expand_cap(database, buf, "exit_ca_mode", <<>>)
        sgr == tty_expand_cap(database, ca.to, "exit_attribute_mode", <<>>)
        fl == flush_to(sgr.to, to, write_ok)
    IN  [attrs |-> set.attrs, set |-> set, buffer |-> fl.buffer, to |-> fl.to,
         emitted |-> (IF ca.result.ok
                        THEN << <<"exit_ca_mode", SubSeq(ca.to, Len(buf) + 1, Len(ca.to))>> >>
                        ELSE <<>>)
                     \o (IF sgr.result.ok
                           THEN << <<"exit_attribute_mode",
                                     SubSeq(sgr.to, Len(ca.to) + 1, Len(sgr.to))>> >>
                           ELSE <<>>)]

----------------------------------------------------------------------------
(* The state machine *)

NoCsi == CSICommand(<<>>, <<>>, 0)

Init ==
    /\ csi_bytes = <<>> /\ csi_result = None /\ csi_pc = "idle"
    /\ list_data = <<>> /\ list_csi = NoCsi /\ list_result = None /\ list_pc = "idle"
    /\ db = None /\ mappings = <<>> /\ input = <<>>
    /\ overflow_checks = FALSE
    /\ events = [panic |-> FALSE, events |-> <<>>]
    /\ ppc = "idle"
    /\ items = <<>> /\ issued = {} /\ removed = {}
    /\ alloc_items = <<>> /\ alloc_issued = {}
    /\ mod_a = 0 /\ mod_b = 0 /\ mod_out = None /\ mod_pc = "idle"
    /\ anchors = <<>> /\ size = Viewport80x24 /\ anchor_handles = {}
    /\ winsize = winsize_of(80, 24) /\ ws_checks = FALSE
    /\ ws_rect = [panic |-> FALSE, rect |-> Viewport80x24]
    /\ tw_db = None /\ buffer = <<>> /\ sink = <<>> /\ emitted = <<>> /\ tw_calls = 0
    /\ tw_call = <<"from", <<>>>> /\ tw_last = Ok
    /\ tty_attrs = CookedTermios /\ term_call = "open" /\ term_result = IoOk
    /\ term_arg = None
    /\ sel_pc = "start" /\ orig_termios = None /\ sel_db = None /\ sel_buffer = <<>>
    /\ tty_out = <<>> /\ cursor_pos = 0 /\ frames = 0 /\ applied = <<>>
    /\ drop_emitted = <<>>
    /\ change = None /\ chg_src = TtyDbOf({}) /\ chg_cur = TtyDbOf({}) /\ chg_file = <<>>
    /\ chg_call = <<"none">> /\ chg_result = IoOk /\ chg_calls = 0

\* CSICommand::parse(bytes)
CsiParse ==
    /\ csi_pc = "idle"
    /\ \E bytes \in CsiInputs :
         /\ csi_bytes' = bytes
         /\ csi_result' = CSICommand_parse(bytes)
    /\ csi_pc' = "done"
    /\ UNCHANGED <<tty_vars, list_vars, parser_vars, arena_vars, mod_vars, anchors_vars, tw_vars>>

\* CSIList::push(csi, codepoint)
ListPush ==
    /\ list_pc = "idle"
    /\ Len(list_data) < MaxListLen
    /\ \E csi \in StoredCsis, code \in StoredCodes :
         list_data' = CSIList_push(list_data, csi, code)
    /\ UNCHANGED <<tty_vars, list_csi, list_result, list_pc, csi_vars, parser_vars, arena_vars, mod_vars, anchors_vars, tw_vars>>

\* CSIList::match_csi(csi)
ListMatch ==
    /\ list_pc = "idle"
    /\ \E csi \in IncomingCsis :
         /\ list_csi' = csi
         /\ list_result' = match_csi(list_data, csi)
    /\ list_pc' = "done"
    /\ UNCHANGED <<tty_vars, list_data, csi_vars, parser_vars, arena_vars, mod_vars, anchors_vars, tw_vars>>

\* InputParser::push_from_terminfo(db), once: InputParser::from_terminfo
PushFromTerminfo ==
    /\ ppc = "idle"
    /\ db = None
    /\ \E database \in Dbs :
         /\ db' = Some(database)
         /\ mappings' = push_from_terminfo(mappings, database)
    /\ UNCHANGED <<tty_vars, input, overflow_checks, events, ppc, csi_vars, list_vars, arena_vars, mod_vars, anchors_vars, tw_vars>>

\* InputParser::parse(input), in a build with or without overflow checks
Parse ==
    /\ ppc = "idle"
    /\ \E bytes \in Inputs, checks \in BOOLEAN :
         /\ input' = bytes
         /\ overflow_checks' = checks
         /\ events' = InputParser_parse(mappings, bytes, checks)
    /\ ppc' = "parsed"
    /\ UNCHANGED <<tty_vars, db, mappings, csi_vars, list_vars, arena_vars, mod_vars, anchors_vars, tw_vars>>

\* AnyArena::insert(item). The AnyArena and the ArenaAlloc are separate objects
\* that share nothing: a behaviour exercises one of them.
Insert ==
    /\ alloc_items = <<>>
    /\ LET scan == first_dead(items) IN
         IF scan.found THEN items[scan.index + 1].generation < MaxGeneration
         ELSE Len(items) < MaxSlots
    /\ \E item \in Values :
         LET r == AnyArena_insert(items, item) IN
           /\ items' = r.items
           /\ issued' = issued \cup {[handle |-> r.handle, value |-> item]}
    /\ UNCHANGED <<tty_vars, removed, alloc_vars, csi_vars, list_vars, parser_vars, mod_vars, anchors_vars, tw_vars>>

\* AnyArena::remove(handle), with a (clone of a) handle insert returned
Remove ==
    /\ \E h \in {e.handle : e \in issued} :
         /\ items' = AnyArena_remove(items, h)
         /\ removed' = removed \cup {h}
    /\ UNCHANGED <<tty_vars, issued, alloc_vars, csi_vars, list_vars, parser_vars, mod_vars, anchors_vars, tw_vars>>

\* ArenaAlloc::insert(item); ArenaAlloc has no remove
AllocInsert ==
    /\ items = <<>>
    /\ Len(alloc_items) < MaxAllocSlots
    /\ \E item \in Values :
         LET r == ArenaAlloc_insert(alloc_items, item) IN
           /\ alloc_items' = r.items
           /\ alloc_issued' = alloc_issued \cup {[handle |-> r.handle, value |-> item]}
    /\ UNCHANGED <<tty_vars, any_vars, csi_vars, list_vars, parser_vars, mod_vars, anchors_vars, tw_vars>>

\* The operations of Modifiers on the masks a and b
ModifiersOps ==
    /\ mod_pc = "idle"
    /\ \E a \in 0..255, b \in 0..255 :
         /\ mod_a' = a
         /\ mod_b' = b
         /\ mod_out' = Some([subset_of |-> subset_of(a, b),
                             superset_of |-> superset_of(a, b),
                             bitor |-> bitor(a, b),
                             bitand |-> bitand(a, b),
                             bitxor |-> bitxor(a, b),
                             not |-> not(a),
                             pressed |-> <<shift_pressed(a), alt_pressed(a), ctrl_pressed(a),
                                           super_pressed(a), hyper_pressed(a), meta_pressed(a),
                                           caps_lock_pressed(a), num_lock_pressed(a)>>])
    /\ mod_pc' = "done"
    /\ UNCHANGED <<tty_vars, csi_vars, list_vars, parser_vars, arena_vars, anchors_vars, tw_vars>>

\* TuiAnchors::add_anchor(anchor)
AddAnchor ==
    /\ Len(anchors) < MaxAnchors
    /\ \E anchor \in AnchorSamples :
         LET r == ArenaAlloc_insert(anchors, <<anchor, None>>) IN
           /\ anchors' = r.items
           /\ anchor_handles' = anchor_handles \cup {r.handle}
    /\ UNCHANGED <<tty_vars, ws_vars, size, csi_vars, list_vars, parser_vars, arena_vars, mod_vars, tw_vars>>

\* TuiAnchors::add_anchor_in(anchor, &add_rect(upper_left, down_right)) with two
\* handles the engine returned
AddAnchorIn ==
    /\ Len(anchors) < MaxAnchors
    /\ \E anchor \in AnchorSamples, upper_left \in anchor_handles, down_right \in anchor_handles :
         LET relative_to == RectHandle_new(upper_left, down_right)
             r == ArenaAlloc_insert(anchors, <<anchor, Some(relative_to)>>)
         IN  /\ anchors' = r.items
             /\ anchor_handles' = anchor_handles \cup {r.handle}
    /\ UNCHANGED <<tty_vars, ws_vars, size, csi_vars, list_vars, parser_vars, arena_vars, mod_vars, tw_vars>>

\* TuiAnchors::update_size(size)
UpdateSize ==
    /\ \E new \in Viewports : size' = new
    /\ UNCHANGED <<tty_vars, ws_vars, anchors, anchor_handles, csi_vars, list_vars, parser_vars, arena_vars, mod_vars, tw_vars>>

\* Rect::from(winsize), in a build with or without overflow checks
RectFromWinsize ==
    /\ \E ws_col \in WinsizeCols, ws_row \in WinsizeRows, checks \in BOOLEAN :
         /\ winsize' = winsize_of(ws_col, ws_row)
         /\ ws_checks' = checks
         /\ ws_rect' = Rect_from_winsize(winsize_of(ws_col, ws_row), checks)
    /\ UNCHANGED <<tty_vars, anchors, size, anchor_handles,
                   csi_vars, list_vars, parser_vars, arena_vars, mod_vars, tw_vars>>

\* TerminfoWrapper::from(database)
TwFrom ==
    /\ tw_db = None
    /\ \E database \in TtyDbs : tw_db' = Some(database)
    /\ UNCHANGED <<tty_vars, buffer, sink, emitted, tw_calls, tw_call, tw_last,
                   csi_vars, list_vars, parser_vars, arena_vars, mod_vars, anchors_vars>>

\* One of the capability methods: tty_expand_cap!(self.db, &mut self.buffer, cap; params)
TwEmit ==
    /\ tw_db # None
    /\ tw_calls < MaxEmits
    /\ \E call \in CapCalls :
         LET r == tty_expand_cap(tw_db[1], buffer, call[1], call[2]) IN
           /\ tw_call' = call
           /\ buffer' = r.to
           /\ tw_last' = r.result
           /\ emitted' = IF r.result.ok
                            THEN Append(emitted, SubSeq(r.to, Len(buffer) + 1, Len(r.to)))
                            ELSE emitted
           /\ tw_calls' = IF r.result.ok THEN tw_calls + 1 ELSE tw_calls
    /\ UNCHANGED <<tty_vars, tw_db, sink,
                   csi_vars, list_vars, parser_vars, arena_vars, mod_vars, anchors_vars>>

\* set_foreground, set_background, set_a_foreground, set_a_background:
\* tty_expand_cap!(self.db, &mut self.buffer, cap; color)
TwSetColor ==
    /\ tw_db # None
    /\ tw_calls < MaxEmits
    /\ \E call \in ColorCalls :
         LET r == tty_expand_cap(tw_db[1], buffer, call[1], call[2]) IN
           /\ tw_call' = call
           /\ buffer' = r.to
           /\ tw_last' = r.result
           /\ emitted' = IF r.result.ok
                            THEN Append(emitted, SubSeq(r.to, Len(buffer) + 1, Len(r.to)))
                            ELSE emitted
           /\ tw_calls' = IF r.result.ok THEN tw_calls + 1 ELSE tw_calls
    /\ UNCHANGED <<tty_vars, tw_db, sink,
                   csi_vars, list_vars, parser_vars, arena_vars, mod_vars, anchors_vars>>

\* TerminfoWrapper::append(bytes)
TwAppend ==
    /\ tw_db # None
    /\ tw_calls < MaxEmits
    /\ \E bytes \in AppendSlices :
         /\ tw_call' = <<"append", bytes>>
         /\ buffer' = buffer \o bytes
         /\ emitted' = Append(emitted, bytes)
    /\ tw_calls' = tw_calls + 1
    /\ tw_last' = Ok
    /\ UNCHANGED <<tty_vars, tw_db, sink,
                   csi_vars, list_vars, parser_vars, arena_vars, mod_vars, anchors_vars>>

\* <TerminfoWrapper as Write>::write(buf): Vec's write takes the whole slice
TwWrite ==
    /\ tw_db # None
    /\ tw_calls < MaxEmits
    /\ \E buf \in WriteSlices :
         /\ tw_call' = <<"write", buf>>
         /\ buffer' = buffer \o buf
         /\ emitted' = Append(emitted, buf)
    /\ tw_calls' = tw_calls + 1
    /\ tw_last' = Ok
    /\ UNCHANGED <<tty_vars, tw_db, sink,
                   csi_vars, list_vars, parser_vars, arena_vars, mod_vars, anchors_vars>>

\* TerminfoWrapper::flush_to(&mut sink) with a Vec<u8> for the sink, as in
\* tests::test: its write_all appends and cannot fail
TwFlushTo ==
    /\ tw_db # None
    /\ tw_call' = <<"flush_to", <<>>>>
    /\ sink' = sink \o buffer
    /\ buffer' = <<>>
    /\ emitted' = <<>>
    /\ tw_last' = Ok
    /\ UNCHANGED <<tty_vars, tw_db, tw_calls, csi_vars, list_vars, parser_vars, arena_vars, mod_vars, anchors_vars>>

\* TerminfoWrapper::clear()
TwClear ==
    /\ tw_db # None
    /\ tw_call' = <<"clear", <<>>>>
    /\ buffer' = <<>>
    /\ emitted' = <<>>
    /\ tw_last' = Ok
    /\ UNCHANGED <<tty_vars, tw_db, sink, tw_calls,
                   csi_vars, list_vars, parser_vars, arena_vars, mod_vars, anchors_vars>>

\* The tty is found with other attributes: another program set them (stty,
\* the shell) before this one reads them.
Stty ==
    /\ term_call = "open"
    /\ sel_pc = "start"
    /\ \E termios \in TermiosSamples : tty_attrs' = termios
    /\ term_call' = "stty"
    /\ term_result' = IoOk
    /\ term_arg' = None
    /\ UNCHANGED <<sel_vars, chg_vars, lib_vars>>

\* UnixTerminal::raw_mode() called on the tty directly, with tcgetattr and tcsetattr succeeding or failing
RawMode ==
    /\ sel_pc = "start"
    /\ \E get_ok \in BOOLEAN, set_ok \in BOOLEAN :
         LET r == raw_mode(tty_attrs, get_ok, set_ok) IN
           /\ tty_attrs' = r.attrs
           /\ term_result' = r.result
           /\ term_arg' = r.arg
    /\ term_call' = "raw_mode"
    /\ UNCHANGED <<sel_vars, chg_vars, lib_vars>>

\* Selector::new (lines 29..45): the snapshot is taken with get_termios().unwrap()
SelectorNew ==
    /\ sel_pc = "start"
    /\ \E get_ok \in BOOLEAN, database \in SelectorDbs :
         IF get_ok
           THEN /\ orig_termios' = Some(tty_attrs)
                /\ sel_db' = Some(database)
                /\ sel_pc' = "l48"
                /\ term_result' = IoOk
           ELSE /\ sel_pc' = "aborted"
                /\ term_result' = IoErr("tcgetattr")
                /\ UNCHANGED <<orig_termios, sel_db>>
    /\ term_call' = "get_termios"
    /\ term_arg' = None
    /\ UNCHANGED <<tty_attrs, sel_buffer, tty_out, cursor_pos, frames, applied, drop_emitted,
                   lib_vars, chg_vars>>

\* line 48: self.tty.raw_mode().unwrap()
SelRawMode ==
    /\ sel_pc = "l48"
    /\ \E get_ok \in BOOLEAN, set_ok \in BOOLEAN :
         LET r == raw_mode(tty_attrs, get_ok, set_ok) IN
           /\ tty_attrs' = r.attrs
           /\ term_result' = r.result
           /\ term_arg' = r.arg
           /\ sel_pc' = IF r.result.ok THEN "l49" ELSE "unwinding"
    /\ term_call' = "raw_mode"
    /\ UNCHANGED <<orig_termios, sel_db, sel_buffer, tty_out, cursor_pos, frames, applied,
                   drop_emitted, lib_vars, chg_vars>>

\* line 49: self.terminfo.enter_ca_mode().unwrap()
SelEnterCa ==
    /\ sel_pc = "l49"
    /\ LET r == tty_expand_cap(sel_db[1], sel_buffer, "enter_ca_mode", <<>>) IN
         /\ sel_buffer' = r.to
         /\ applied' = IF r.result.ok THEN Append(applied, "enter_ca_mode") ELSE applied
         /\ sel_pc' = IF r.result.ok THEN "l50" ELSE "unwinding"
    /\ UNCHANGED <<term_vars, orig_termios, sel_db, tty_out, cursor_pos, frames, drop_emitted,
                   lib_vars, chg_vars>>

\* line 50: self.terminfo.cursor_invisible().unwrap()
SelCursorInvisible ==
    /\ sel_pc = "l50"
    /\ LET r == tty_expand_cap(sel_db[1], sel_buffer, "cursor_invisible", <<>>) IN
         /\ sel_buffer' = r.to
         /\ applied' = IF r.result.ok THEN Append(applied, "cursor_invisible") ELSE applied
         /\ sel_pc' = IF r.result.ok THEN "l51" ELSE "unwinding"
    /\ UNCHANGED <<term_vars, orig_termios, sel_db, tty_out, cursor_pos, frames, drop_emitted,
                   lib_vars, chg_vars>>

\* line 51: self.terminfo.flush_to(&mut self.tty).unwrap()
SelFlushSetup ==
    /\ sel_pc = "l51"
    /\ \E write_ok \in BOOLEAN :
         LET r == flush_to(sel_buffer, tty_out, write_ok) IN
           /\ sel_buffer' = r.buffer
           /\ tty_out' = r.to
           /\ sel_pc' = IF r.result.ok THEN "l56" ELSE "unwinding"
    /\ UNCHANGED <<term_vars, orig_termios, sel_db, cursor_pos, frames, applied, drop_emitted,
                   lib_vars, chg_vars>>

\* lines 56..67: one frame is drawn into the buffer and flushed
SelDraw ==
    /\ sel_pc = "l56"
    /\ frames < MaxFrames
    /\ \E write_ok \in BOOLEAN :
         LET drawn == run_calls(sel_db[1], sel_buffer,
                                frame_calls(Selector_items, 0, cursor_pos), 1)
             r == flush_to(drawn.to, tty_out, write_ok)
         IN  IF drawn.ok
               THEN /\ sel_buffer' = r.buffer
                    /\ tty_out' = r.to
                    /\ sel_pc' = IF r.result.ok THEN "l68" ELSE "unwinding"
               ELSE /\ sel_buffer' = drawn.to
                    /\ tty_out' = tty_out
                    /\ sel_pc' = "unwinding"
    /\ frames' = frames + 1
    /\ UNCHANGED <<term_vars, orig_termios, sel_db, cursor_pos, applied, drop_emitted, lib_vars, chg_vars>>

\* lines 68..98: one read, parsed, and the match on its events; after the last
\* frame the model reads a run that ends the loop
SelRead ==
    /\ sel_pc = "l68"
    /\ \E read_ok \in BOOLEAN, keys \in KeyRuns :
         LET r == on_keys(keys, 1, cursor_pos, Len(Selector_items)) IN
           /\ (frames < MaxFrames \/ r.stop \/ ~read_ok)
           /\ IF read_ok
                THEN /\ cursor_pos' = r.cursor
                     /\ sel_pc' = IF r.stop THEN "l100" ELSE "l56"
                ELSE /\ cursor_pos' = cursor_pos
                     /\ sel_pc' = "unwinding"
    /\ UNCHANGED <<term_vars, orig_termios, sel_db, sel_buffer, tty_out, frames, applied,
                   drop_emitted, lib_vars, chg_vars>>

\* line 100: self.terminfo.cursor_normal().unwrap()
SelCursorNormal ==
    /\ sel_pc = "l100"
    /\ LET r == tty_expand_cap(sel_db[1], sel_buffer, "cursor_normal", <<>>) IN
         /\ sel_buffer' = r.to
         /\ applied' = IF r.result.ok
                          THEN SelectSeq(applied, LAMBDA c : c # "cursor_invisible")
                          ELSE applied
         /\ sel_pc' = IF r.result.ok THEN "l101" ELSE "unwinding"
    /\ UNCHANGED <<term_vars, orig_termios, sel_db, tty_out, cursor_pos, frames, drop_emitted,
                   lib_vars, chg_vars>>

\* line 101: self.terminfo.exit_ca_mode().unwrap()
SelExitCa ==
    /\ sel_pc = "l101"
    /\ LET r == tty_expand_cap(sel_db[1], sel_buffer, "exit_ca_mode", <<>>) IN
         /\ sel_buffer' = r.to
         /\ applied' = IF r.result.ok
                          THEN SelectSeq(applied, LAMBDA c : c # "enter_ca_mode")
                          ELSE applied
         /\ sel_pc' = IF r.result.ok THEN "l102" ELSE "unwinding"
    /\ UNCHANGED <<term_vars, orig_termios, sel_db, tty_out, cursor_pos, frames, drop_emitted,
                   lib_vars, chg_vars>>

\* line 102: self.terminfo.flush_to(&mut self.tty).unwrap()
SelFlushExit ==
    /\ sel_pc = "l102"
    /\ \E write_ok \in BOOLEAN :
         LET r == flush_to(sel_buffer, tty_out, write_ok) IN
           /\ sel_buffer' = r.buffer
           /\ tty_out' = r.to
           /\ sel_pc' = IF r.result.ok THEN "l103" ELSE "unwinding"
    /\ UNCHANGED <<term_vars, orig_termios, sel_db, cursor_pos, frames, applied, drop_emitted,
                   lib_vars, chg_vars>>

\* lines 103..105: self.tty.set_termios(&self.orig_termios, TCSADRAIN).unwrap()
SelRestore ==
    /\ sel_pc = "l103"
    /\ \E set_ok \in BOOLEAN :
         LET r == set_termios(tty_attrs, orig_termios[1], "TCSADRAIN", set_ok) IN
           /\ tty_attrs' = r.attrs
           /\ term_result' = r.result
           /\ term_arg' = r.arg
           /\ sel_pc' = IF r.result.ok THEN "returned" ELSE "unwinding"
    /\ term_call' = "set_termios"
    /\ UNCHANGED <<orig_termios, sel_db, sel_buffer, tty_out, cursor_pos, frames, applied,
                   drop_emitted, lib_vars, chg_vars>>

\* Drop for Selector, when main returns or a panic unwinds
SelDrop ==
    /\ sel_pc \in {"returned", "unwinding"}
    /\ \E set_ok \in BOOLEAN, write_ok \in BOOLEAN :
         LET r == Selector_drop(tty_attrs, orig_termios[1], sel_db[1], sel_buffer, tty_out,
                                set_ok, write_ok)
         IN  /\ tty_attrs' = r.attrs
             /\ term_result' = r.set.result
             /\ term_arg' = r.set.arg
             /\ sel_buffer' = r.buffer
             /\ tty_out' = r.to
             /\ drop_emitted' = r.emitted
    /\ term_call' = "drop"
    /\ sel_pc' = "dropped"
    /\ UNCHANGED <<orig_termios, sel_db, cursor_pos, frames, applied, lib_vars, chg_vars>>

\* SaveCursor::from_terminfo(db) or EnterCaMode::from_terminfo(db)
ChangeFromTerminfo ==
    /\ chg_calls = 0
    /\ \E database \in ChangeDbs \cup {OtherChangeDb}, name \in {"SaveCursor", "EnterCaMode"} :
         /\ chg_src' = database
         /\ chg_cur' = database
         /\ change' = IF name = "SaveCursor" THEN SaveCursor_from_terminfo(database)
                       ELSE EnterCaMode_from_terminfo(database)
         /\ chg_call' = <<"from_terminfo", name>>
    /\ chg_result' = IoOk
    /\ UNCHANGED <<chg_file, chg_calls, term_vars, sel_vars, lib_vars>>

\* The caller replaces its database by another one
ChangeDbReplaced ==
    /\ change # None
    /\ \E database \in {TtyDbOf({}), OtherChangeDb} :
         /\ database # chg_cur
         /\ chg_cur' = database
    /\ chg_call' = <<"replace">>
    /\ chg_result' = IoOk
    /\ UNCHANGED <<change, chg_src, chg_file, chg_calls, term_vars, sel_vars, lib_vars>>

\* change.apply(&mut tty)
ChangeApply ==
    /\ change # None
    /\ chg_calls < MaxChangeCalls
    /\ \E write_ok \in BOOLEAN :
         LET r == TtyChange_apply(change[1], chg_file, write_ok) IN
           /\ chg_file' = r.file
           /\ chg_result' = r.result
    /\ chg_call' = <<"apply">>
    /\ chg_calls' = chg_calls + 1
    /\ UNCHANGED <<change, chg_src, chg_cur, term_vars, sel_vars, lib_vars>>

\* change.revert(&mut tty)
ChangeRevert ==
    /\ change # None
    /\ chg_calls < MaxChangeCalls
    /\ \E write_ok \in BOOLEAN :
         LET r == TtyChange_revert(change[1], chg_file, write_ok) IN
           /\ chg_file' = r.file
           /\ chg_result' = r.result
    /\ chg_call' = <<"revert">>
    /\ chg_calls' = chg_calls + 1
    /\ UNCHANGED <<change, chg_src, chg_cur, term_vars, sel_vars, lib_vars>>

CsiNext == CsiParse
ListNext == ListPush \/ ListMatch
ParserNext == PushFromTerminfo \/ Parse
ArenaNext == Insert \/ Remove \/ AllocInsert
ModifiersNext == ModifiersOps
AnchorsNext == AddAnchor \/ AddAnchorIn \/ UpdateSize
TwNext == TwFrom \/ TwEmit \/ TwAppend \/ TwWrite \/ TwFlushTo \/ TwClear
WinsizeNext == RectFromWinsize
TermNext == Stty \/ RawMode
ChangeNext == ChangeFromTerminfo \/ ChangeDbReplaced \/ ChangeApply \/ ChangeRevert
SelectorNext ==
    Stty \/ SelectorNew \/ SelRawMode \/ SelEnterCa \/ SelCursorInvisible \/ SelFlushSetup
        \/ SelDraw \/ SelRead \/ SelCursorNormal \/ SelExitCa \/ SelFlushExit \/ SelRestore
        \/ SelDrop
ColorNext == TwFrom \/ TwSetColor \/ TwFlushTo \/ TwClear

Next == CsiNext \/ ListNext \/ ParserNext \/ ArenaNext \/ ModifiersNext \/ AnchorsNext
          \/ TwNext \/ ColorNext \/ WinsizeNext \/ TermNext \/ SelectorNext \/ ChangeNext

\* The whole program, and each component run on its own.
Spec == Init /\ [][Next]_vars
SpecCsi == Init /\ [][CsiNext]_vars
SpecList == Init /\ [][ListNext]_vars
SpecParser == Init /\ [][ParserNext]_vars
SpecArena == Init /\ [][ArenaNext]_vars
SpecModifiers == Init /\ [][ModifiersNext]_vars
SpecAnchors == Init /\ [][AnchorsNext]_vars
SpecTw == Init /\ [][TwNext]_vars
SpecWinsize == Init /\ [][WinsizeNext]_vars
SpecTerm == Init /\ [][TermNext]_vars
SpecSelector == Init /\ [][SelectorNext]_vars
SpecChange == Init /\ [][ChangeNext]_vars
SpecColor == Init /\ [][ColorNext]_vars

----------------------------------------------------------------------------
(* Key codes the claims name, as push_from_terminfo assigns them *)

KEY_INSERT == 57349
KEY_LEFT == 57351
KEY_RIGHT == 57352
KEY_UP == 57353
KEY_DOWN == 57354
KEY_F1 == 57364

\* What a call of parse returned when it returned these events.
Returned(evs) == [panic |-> FALSE, events |-> evs]

\* The decimal value of a string of ASCII digits.
RECURSIVE DecimalValue(_)
DecimalValue(digits) ==
    IF digits = <<>> THEN 0
    ELSE 10 * DecimalValue(SubSeq(digits, 1, Len(digits) - 1)) + (digits[Len(digits)] - 48)

----------------------------------------------------------------------------
(* C1 *)

\* C1: InputParser::parse is total: whatever the input and the binding table,
\* the call returns a vector of events and never aborts.
C1_ParseIsTotal == ppc = "parsed" => ~events.panic

----------------------------------------------------------------------------
(* C2 *)

\* C2: a handle passed to remove never resolves again, whatever inserts and
\* removes follow, and the handle an insert returns resolves to the inserted
\* value right after that insert (also when the insert reused a slot).
C2_RemovedStaysAbsent ==
    [][ /\ \A h \in removed' : AnyArena_get(items', h) = None
        /\ \A e \in issued' \ issued : AnyArena_get(items', e.handle) = Some(e.value) ]_vars

\* A removed handle whose slot an insert has reused: the slot is alive again, in
\* a later generation, and the handle of the new occupant resolves.
C2_Witness ==
    \E h \in removed :
        /\ items[h.index + 1].alive
        /\ items[h.index + 1].generation > h.generation
        /\ \E e \in issued :
             /\ e.handle.index = h.index
             /\ e.handle \notin removed
             /\ AnyArena_get(items, e.handle) = Some(e.value)

----------------------------------------------------------------------------
(* C3 *)

\* C3: parse applied to the well-formed UTF-8 encoding (2, 3 or 4 bytes) of a
\* Unicode scalar value yields exactly one event, whose key code is the scalar
\* value and whose modifier mask is empty.
C3_Utf8ScalarDecoded ==
    \A cp \in SampleScalars :
        (ppc = "parsed" /\ input = utf8_encode(cp))
            => events = Returned(<<KeyEvent(cp, Modifiers_NONE)>>)

----------------------------------------------------------------------------
(* C4 *)

\* The input is ESC, '[' or 'O', and exactly one CSI that the table binds, with
\* a final byte in 'A'..'Z' or '~'.
IsBoundCsiInput(bytes, data) ==
    /\ Len(bytes) >= 3
    /\ bytes[1] = ESC
    /\ bytes[2] \in {LBRACKET, 79}
    /\ LET parsed == CSICommand_parse(SubSeq(bytes, 3, Len(bytes))) IN
         /\ parsed # None
         /\ parsed[1].len = Len(bytes) - 2
         /\ parsed[1].cmd.final_byte \in (65..90) \cup {TILDE}
         /\ match_csi(data, parsed[1].cmd) # None

\* The mask the claim gives a CSI with these parameter bytes: N-1 when the
\* second ';'-separated segment is 1 to 3 ASCII digits of value N, else empty.
ClaimedMask(params) ==
    LET segs == split(params) IN
    IF /\ Len(segs) >= 2
       /\ Len(segs[2]) \in 1..3
       /\ \A k \in 1..Len(segs[2]) : segs[2][k] \in 48..57
      THEN DecimalValue(segs[2]) - 1
      ELSE Modifiers_NONE

\* C4: a bound CSI with final byte 'A'..'Z' or '~' yields one event whose mask
\* is N-1 for a second parameter segment of 1 to 3 digits of value N, and empty
\* in every other case.
C4_ModifierMask ==
    (ppc = "parsed" /\ IsBoundCsiInput(input, mappings))
        => LET cmd == CSICommand_parse(SubSeq(input, 3, Len(input)))[1].cmd IN
             events = Returned(<<KeyEvent(match_csi(mappings, cmd)[1],
                                          ClaimedMask(cmd.parameter_bytes))>>)

----------------------------------------------------------------------------
(* C5 *)

\* The codes Tab can carry: the byte 0x09, and the codes push_from_terminfo
\* gives the literal "9u" and the capability Tab.
TabCodes == {9, 57346, 57347}

\* C5: parse of ESC '[' 'Z' yields exactly one event, Tab with exactly Shift,
\* for every binding table.
C5_BackTab ==
    (ppc = "parsed" /\ input = <<ESC, LBRACKET, 90>>)
        => /\ ~events.panic
           /\ Len(events.events) = 1
           /\ events.events[1].key_code \in TabCodes
           /\ events.events[1].mods = Modifiers_SHIFT

----------------------------------------------------------------------------
(* C6 *)

\* C6: parse of ESC '[' '[' yields exactly one event, '[' with exactly Alt.
C6_AltBracket ==
    (ppc = "parsed" /\ input = <<ESC, LBRACKET, LBRACKET>>)
        => events = Returned(<<KeyEvent(LBRACKET, Modifiers_ALT)>>)

----------------------------------------------------------------------------
(* C7 *)

\* What parse returns for the bytes of the input from position k on.
ParseOfRest(k) ==
    InputParser_parse(mappings, SubSeq(input, k, Len(input)), overflow_checks).events

\* C7: when ESC is not followed by '[' or 'O', a next byte in 0x00..0x40 or
\* 0x5B..0x7E gives that byte with Alt and both bytes are consumed; any other
\* next byte, or none, gives a lone Escape and only the ESC is consumed.
C7_EscPrefix ==
    (/\ ppc = "parsed"
     /\ Len(input) >= 1
     /\ input[1] = ESC
     /\ (Len(input) >= 2 => input[2] \notin {LBRACKET, 79}))
        => IF Len(input) >= 2 /\ input[2] \in (0..64) \cup (91..126)
             THEN events = Returned(<<KeyEvent(input[2], Modifiers_ALT)>> \o ParseOfRest(3))
             ELSE events = Returned(<<KeyEvent(ESC, Modifiers_NONE)>> \o ParseOfRest(2))

----------------------------------------------------------------------------
(* C8 *)

\* The escapes the claim names and the key each stands for.
SeedEscapes ==
    { <<<<27, 91, 65>>, KEY_UP>>, <<<<27, 91, 66>>, KEY_DOWN>>,
      <<<<27, 91, 67>>, KEY_RIGHT>>, <<<<27, 91, 68>>, KEY_LEFT>>,
      <<<<27, 91, 50, 126>>, KEY_INSERT>>,
      <<<<27, 79, 80>>, KEY_F1>>, <<<<27, 79, 81>>, KEY_F1 + 1>>,
      <<<<27, 79, 82>>, KEY_F1 + 2>>, <<<<27, 79, 83>>, KEY_F1 + 3>> }

\* C8: a parser built from a database with none of the key capabilities still
\* decodes ESC [ A..D, ESC [ 2 ~ and ESC O P..S, each to exactly one event.
C8_DefaultSeeds ==
    \A esc \in SeedEscapes :
        (/\ ppc = "parsed"
         /\ db # None
         /\ \A c \in CapNames : db[1][c] = None
         /\ input = esc[1])
            => events = Returned(<<KeyEvent(esc[2], Modifiers_NONE)>>)

----------------------------------------------------------------------------
(* C9 *)

\* The decompositions body = p ++ i ++ <<f>> ++ rest of the CSI grammar, as
\* <<|p|, |i|>>: p parameter bytes, i intermediate bytes, f a final byte.
CsiSplits(body) ==
    { s \in (0..Len(body)) \X (0..Len(body)) :
        /\ s[1] + s[2] + 1 <= Len(body)
        /\ \A k \in 1..s[1] : body[k] \in 48..63
        /\ \A k \in (s[1] + 1)..(s[1] + s[2]) : body[k] \in 32..47
        /\ body[s[1] + s[2] + 1] \in 64..126 }

\* C9: CSICommand::parse agrees with the CSI grammar on every slice: after an
\* optional leading ESC '[' it returns the parameter bytes, the intermediate
\* bytes, the final byte and the number of bytes consumed when the slice starts
\* with a CSI, and absent for every other slice.
C9_CsiGrammar ==
    csi_pc = "done" =>
        LET prefixed == Len(csi_bytes) >= 2 /\ csi_bytes[1] = 27 /\ csi_bytes[2] = 91
            body == IF prefixed THEN SubSeq(csi_bytes, 3, Len(csi_bytes)) ELSE csi_bytes
            splits == CsiSplits(body)
        IN  IF splits = {} THEN csi_result = None
            ELSE \A s \in splits :
                   csi_result =
                     Some([cmd |-> [parameter_bytes |-> SubSeq(body, 1, s[1]),
                                    intermediate_bytes |-> SubSeq(body, s[1] + 1, s[1] + s[2]),
                                    final_byte |-> body[s[1] + s[2] + 1]],
                           len |-> s[1] + s[2] + 1 + (IF prefixed THEN 2 ELSE 0)])

\* A prefixed slice with parameter, intermediate and trailing bytes was parsed.
C9_Witness ==
    /\ csi_pc = "done"
    /\ csi_result # None
    /\ csi_bytes[1] = 27
    /\ csi_result[1].cmd.parameter_bytes # <<>>
    /\ csi_result[1].cmd.intermediate_bytes # <<>>
    /\ csi_result[1].len < Len(csi_bytes)

----------------------------------------------------------------------------
(* C10 *)

\* The first ';'-separated segment of the parameter bytes: their longest prefix
\* without a ';'.
FirstSegment(params) ==
    LET n == CHOOSE n \in 0..Len(params) :
                /\ \A k \in 1..n : params[k] # 59
                /\ n = Len(params) \/ params[n + 1] = 59
    IN  SubSeq(params, 1, n)

\* The match rule of the claim.
ClaimedMatch(csi, item) ==
    \/ csi.final_byte \in 65..90 /\ item.final_byte = csi.final_byte
    \/ /\ csi.final_byte = 126
       /\ item.final_byte = 126
       /\ item.parameter_bytes = FirstSegment(csi.parameter_bytes)

\* The positions of the entries that match the incoming command.
ClaimedHits == {k \in 1..Len(list_data) : ClaimedMatch(list_csi, list_data[k][1])}

\* C10: match_csi returns the key code of the first entry, in insertion order,
\* that matches the incoming CSI (final byte alone for 'A'..'Z'; '~' and the
\* first parameter segment for '~'; nothing for any other final byte), and
\* absent iff no entry matches.
C10_FirstHitWins ==
    list_pc = "done" =>
        IF ClaimedHits = {} THEN list_result = None
        ELSE list_result =
               Some(list_data[CHOOSE k \in ClaimedHits : \A j \in ClaimedHits : k <= j][2])

\* Two entries with different key codes match an incoming '~' command that
\* carries a second parameter segment.
C10_Witness ==
    /\ list_pc = "done"
    /\ list_csi.final_byte = 126
    /\ Len(split(list_csi.parameter_bytes)) = 2
    /\ \E j, k \in ClaimedHits : j < k /\ list_data[j][2] # list_data[k][2]
    /\ list_result # None

----------------------------------------------------------------------------
(* C11 *)

\* The length of the unit that starts at position i of bytes: 1 for a non-ESC
\* ASCII byte, 2 + L for ESC, '[' or 'O', and a CSI (parameter bytes,
\* intermediate bytes, a final byte) of L bytes, 0 when no unit starts there.
UnitLen(bytes, i) ==
    IF bytes[i] # 27
      THEN IF bytes[i] <= 127 THEN 1 ELSE 0
    ELSE IF i + 1 > Len(bytes) \/ bytes[i + 1] \notin {91, 79} THEN 0
    ELSE LET splits == CsiSplits(SubSeq(bytes, i + 2, Len(bytes)))
         IN  IF splits = {} THEN 0
             ELSE LET s == CHOOSE s \in splits : TRUE IN 2 + s[1] + s[2] + 1

\* The units of bytes from position i on, in order; None when the bytes are not
\* a concatenation of units.
RECURSIVE UnitsFrom(_, _)
UnitsFrom(bytes, i) ==
    IF i > Len(bytes) THEN Some(<<>>)
    ELSE LET n == UnitLen(bytes, i) IN
         IF n = 0 THEN None
         ELSE LET rest == UnitsFrom(bytes, i + n) IN
              IF rest = None THEN None
              ELSE Some(<<SubSeq(bytes, i, i + n - 1)>> \o rest[1])

\* parse(u1) ++ parse(u2) ++ ... for the units us; it aborts when one of the
\* calls does.
RECURSIVE ParseOfUnits(_)
ParseOfUnits(us) ==
    IF us = <<>> THEN Returned(<<>>)
    ELSE LET head == InputParser_parse(mappings, us[1], overflow_checks)
             tail == ParseOfUnits(Tail(us))
         IN  IF head.panic \/ tail.panic THEN [panic |-> TRUE, events |-> <<>>]
             ELSE Returned(head.events \o tail.events)

\* C11: for an input that is a concatenation of units (a non-ESC ASCII byte, or
\* ESC, '[' or 'O', and a well-formed CSI), parse(input) is the concatenation
\* of parse(unit) in input order; an ASCII unit gives exactly one event, the
\* byte with no modifier; a CSI unit is consumed whole, giving at most one
\* event; the empty input gives no event.
C11_UnitsInOrder ==
    (ppc = "parsed" /\ UnitsFrom(input, 1) # None) =>
        LET us == UnitsFrom(input, 1)[1] IN
          /\ events = ParseOfUnits(us)
          /\ \A k \in 1..Len(us) :
                LET one == InputParser_parse(mappings, us[k], overflow_checks) IN
                  /\ us[k][1] # 27 => one = Returned(<<KeyEvent(us[k][1], Modifiers_NONE)>>)
                  /\ (us[k][1] = 27 /\ ~one.panic) => Len(one.events) <= 1
          /\ input = <<>> => events = Returned(<<>>)

\* Three units were parsed, a bound CSI between two ASCII bytes or two bound
\* CSIs and an ASCII byte, and each gave its event.
C11_Witness ==
    /\ ppc = "parsed"
    /\ UnitsFrom(input, 1) # None
    /\ Len(UnitsFrom(input, 1)[1]) = 3
    /\ \E k \in 1..3 : UnitsFrom(input, 1)[1][k][1] = 27
    /\ \E k \in 1..3 : UnitsFrom(input, 1)[1][k][1] # 27
    /\ ~events.panic
    /\ Len(events.events) = 3

----------------------------------------------------------------------------
(* C12 *)

\* C12: as long as nothing was removed, every handle issued so far resolves to
\* the value passed to the insert that returned it, after every step, in the
\* ArenaAlloc and in the AnyArena.
C12_InsertOnlyResolves ==
    /\ \A e \in alloc_issued : ArenaAlloc_get(alloc_items, e.handle) = Some(e.value)
    /\ removed = {} => \A e \in issued : AnyArena_get(items, e.handle) = Some(e.value)

\* Three inserts of values that are not all the same, each handle still resolving.
C12_Witness ==
    /\ Cardinality(alloc_issued) >= 3
    /\ \E d, e \in alloc_issued :
         /\ d.handle.index < e.handle.index
         /\ d.value # e.value
         /\ ArenaAlloc_get(alloc_items, d.handle) = Some(d.value)

----------------------------------------------------------------------------
(* C13 *)

\* The handles looked up: every index up to one past the longest slot vector and
\* every generation up to one past the largest.
ProbeHandles ==
    {[index |-> i, generation |-> g] : i \in 0..(MaxAllocSlots + 1), g \in 0..(MaxGeneration + 1)}

\* The lookup of the claim.
ClaimedGet(slots, h) ==
    IF /\ h.index < Len(slots)
       /\ slots[h.index + 1].generation = h.generation
       /\ slots[h.index + 1].alive
    THEN Some(slots[h.index + 1].inner)
    ELSE None

\* C13 as stated: for every handle, of whatever element type, get and get_mut
\* return the stored value iff the handle's index is within the slot vector, the
\* slot's generation equals the handle's and the slot is alive, return absent in
\* every other case and never abort, in the ArenaAlloc and in the AnyArena.
C13_GetNeverAborts ==
    \A h \in ProbeHandles :
        /\ \A T \in ElementTypes :
             AnyArena_get_typed(AnyArena_type_id, items, T, h)
                 = [panic |-> FALSE, value |-> ClaimedGet(items, h)]
        /\ ArenaAlloc_get(alloc_items, h) = ClaimedGet(alloc_items, h)

\* C13, amended: for a handle of the arena's element type get and get_mut return
\* the stored value iff the handle's index is within the slot vector, the slot's
\* generation equals the handle's and the slot is alive, and absent otherwise,
\* without aborting, in the ArenaAlloc and in the AnyArena; for a handle of
\* another element type the AnyArena's get and get_mut abort.
C13_GetIffLive ==
    \A h \in ProbeHandles :
        /\ \A T \in ElementTypes :
             AnyArena_get_typed(AnyArena_type_id, items, T, h)
                 = IF T = AnyArena_type_id
                     THEN [panic |-> FALSE, value |-> ClaimedGet(items, h)]
                     ELSE [panic |-> TRUE, value |-> None]
        /\ ArenaAlloc_get(alloc_items, h) = ClaimedGet(alloc_items, h)

\* A removed handle whose slot still carries the handle's generation: only the
\* alive flag tells it is gone.
C13_Witness ==
    \E h \in removed :
        /\ items[h.index + 1].generation = h.generation
        /\ ~items[h.index + 1].alive
        /\ AnyArena_get_typed(AnyArena_type_id, items, AnyArena_type_id, h)
               = [panic |-> FALSE, value |-> None]

----------------------------------------------------------------------------
(* C14 *)

\* The placement the claim describes, for an insert of e.value that returned
\* e.handle and took the slots from old to new.
ClaimedPlacement(old, new, e) ==
    LET dead == {i \in 1..Len(old) : ~old[i].alive} IN
    IF dead # {}
      THEN LET i == CHOOSE i \in dead : \A j \in dead : i <= j IN
           /\ Len(new) = Len(old)
           /\ new[i] = [inner |-> e.value, alive |-> TRUE, generation |-> old[i].generation + 1]
           /\ e.handle = [index |-> i - 1, generation |-> old[i].generation + 1]
           /\ \A j \in 1..Len(old) : j # i => new[j] = old[j]
      ELSE /\ Len(new) = Len(old) + 1
           /\ new[Len(new)] = [inner |-> e.value, alive |-> TRUE, generation |-> 0]
           /\ e.handle = [index |-> Len(old), generation |-> 0]
           /\ \A j \in 1..Len(old) : new[j] = old[j]

\* C14: every insert writes the dead slot of smallest index if there is one,
\* raising its generation by one and returning that index and generation, and
\* otherwise appends a slot of generation 0; no other slot changes.
C14_InsertPlacement ==
    [][ /\ \A e \in issued' \ issued : ClaimedPlacement(items, items', e)
        /\ \A e \in alloc_issued' \ alloc_issued :
              ClaimedPlacement(alloc_items, alloc_items', e) ]_vars

\* Both slots were dead and an insert took the first: slot 0 is alive in
\* generation 1 while slot 1 is still dead.
C14_Witness ==
    /\ Len(items) = 2
    /\ items[1].alive /\ items[1].generation = 1
    /\ ~items[2].alive
    /\ \E e \in issued : e.handle = [index |-> 0, generation |-> 1]

----------------------------------------------------------------------------
(* C15 *)

\* The bits set in the mask m, and the mask with the bits of S set.
BitsOf(m) == {n \in 0..7 : (m \div 2 ^ n) % 2 = 1}
MaskOf(S) ==
    LET w(n) == IF n \in S THEN 2 ^ n ELSE 0
    IN  w(0) + w(1) + w(2) + w(3) + w(4) + w(5) + w(6) + w(7)

\* C15: Modifiers is a set of 8 bits: subset_of and superset_of are inclusion
\* of the bits set, | & ^ ! are union, intersection, symmetric difference and
\* complement within the 8 bits, and the accessor of bit n (shift, alt, ctrl,
\* super, hyper, meta, caps-lock, num-lock for n = 0..7) tells whether bit n is
\* set.
C15_ModifiersBitSet ==
    mod_pc = "done" =>
        LET A == BitsOf(mod_a)
            B == BitsOf(mod_b)
            out == mod_out[1]
        IN  /\ out.subset_of = (A \subseteq B)
            /\ out.superset_of = (B \subseteq A)
            /\ out.bitor = MaskOf(A \cup B)
            /\ out.bitand = MaskOf(A \cap B)
            /\ out.bitxor = MaskOf((A \ B) \cup (B \ A))
            /\ out.not = MaskOf((0..7) \ A)
            /\ \A n \in 0..7 : out.pressed[n + 1] = (n \in A)

\* Ctrl against Ctrl|CapsLock: a proper subset, and not a superset.
C15_Witness ==
    /\ mod_pc = "done"
    /\ mod_a = Modifiers_CTRL
    /\ mod_b = bit_or(Modifiers_CTRL, Modifiers_CAPS_LOCK)
    /\ mod_out[1].subset_of
    /\ ~mod_out[1].superset_of

----------------------------------------------------------------------------
(* C16 *)

\* The rectangle the anchor behind handle h is resolved against: the viewport,
\* or the resolved corners of its parent rectangle.
ReferenceRect(h, checks) ==
    LET parent == ArenaAlloc_get(anchors, h)[1][2] IN
    IF parent = None THEN size
    ELSE Rect_new(get_cords_of_anchor(anchors, size, parent[1].upper_left, checks).cords,
                  get_cords_of_anchor(anchors, size, parent[1].down_right, checks).cords)

\* The handles whose resolution involves no negation of ISIZE_MIN, in the
\* anchor itself or below it.
RECURSIVE NoExtremeOffset(_)
NoExtremeOffset(h) ==
    LET entry == ArenaAlloc_get(anchors, h)[1] IN
      /\ entry[1].col_offset.kind = "Absolute" => entry[1].col_offset.i # ISIZE_MIN
      /\ entry[1].row_offset.kind = "Absolute" => entry[1].row_offset.i # ISIZE_MIN
      /\ entry[2] # None =>
            NoExtremeOffset(entry[2][1].upper_left) /\ NoExtremeOffset(entry[2][1].down_right)

\* C16: with absolute offsets each axis is resolved on its own: the column is
\* min.col + k or max.col - k as the column flag (from_right) says, the row is
\* min.row + k or max.row - k as the row flag (from_down) says, each clamped
\* to the viewport.
C16_AxesIndependent ==
    \A h \in anchor_handles, checks \in BOOLEAN :
        LET anchor == ArenaAlloc_get(anchors, h)[1][1]
            rect == ReferenceRect(h, checks)
            r == get_cords_of_anchor(anchors, size, h, checks)
        IN  (/\ anchor.col_offset.kind = "Absolute"
             /\ anchor.row_offset.kind = "Absolute"
             /\ NoExtremeOffset(h))
            => /\ ~r.panic
               /\ r.cords.col =
                    clamp(IF anchor.from_right THEN rect.down_right.col - anchor.col_offset.i
                          ELSE rect.upper_left.col + anchor.col_offset.i,
                          0, size.down_right.col)
               /\ r.cords.row =
                    clamp(IF anchor.from_down THEN rect.down_right.row - anchor.row_offset.i
                          ELSE rect.upper_left.row + anchor.row_offset.i,
                          0, size.down_right.row)

----------------------------------------------------------------------------
(* C17 *)

\* C17: get_cords_of_anchor returns, for every issued handle, every viewport and
\* every anchor graph the operations build, a column in 0..viewport.max.col and
\* a row in 0..viewport.max.row.
C17_ClampedToViewport ==
    \A h \in anchor_handles, checks \in BOOLEAN :
        LET r == get_cords_of_anchor(anchors, size, h, checks) IN
          /\ ~r.panic
          /\ r.cords.col \in 0..size.down_right.col
          /\ r.cords.row \in 0..size.down_right.row

----------------------------------------------------------------------------
(* C18 *)

\* The graph of examples/anchors.rs: A1 and A2 against the viewport, A3 inside
\* rect(A1, A2).
ExampleGraph ==
    << ArenaItem_new(<<new_abs_from_upper_left(5, 5), None>>),
       ArenaItem_new(<<new_rel_from_down_right(2, 2), None>>),
       ArenaItem_new(<<new_rel_from_down_right(2, 2),
                       Some(RectHandle_new(ArenaHandle_new(0, 0), ArenaHandle_new(1, 0)))>>) >>

\* What the three handles of the example resolve to in the current state.
ExampleCords ==
    [k \in 0..2 |-> get_cords_of_anchor(anchors, size, ArenaHandle_new(k, 0), TRUE)]

\* C18: resolution reads the stored graph and the current viewport, nothing
\* else: the example's handles give (5,5), (39,11), (22,8) in 80x24 and (5,5),
\* (49,14), (27,9) in 100x30, whether the engine was given that viewport before
\* or after the anchors were added, and update_size changes no stored anchor.
C18_LazyResolution ==
    /\ [](anchors = ExampleGraph =>
            /\ \A k \in 0..2 : ~ExampleCords[k].panic
            /\ size = Viewport80x24 =>
                  /\ ExampleCords[0].cords = Cords_new(5, 5)
                  /\ ExampleCords[1].cords = Cords_new(39, 11)
                  /\ ExampleCords[2].cords = Cords_new(22, 8)
            /\ size = Viewport100x30 =>
                  /\ ExampleCords[0].cords = Cords_new(5, 5)
                  /\ ExampleCords[1].cords = Cords_new(49, 14)
                  /\ ExampleCords[2].cords = Cords_new(27, 9))
    /\ [][size' # size => (anchors' = anchors /\ anchor_handles' = anchor_handles)]_vars

\* The example's graph, built in 80x24, after update_size to 100x30.
C18_Witness ==
    /\ anchors = ExampleGraph
    /\ anchor_handles = {ArenaHandle_new(0, 0), ArenaHandle_new(1, 0), ArenaHandle_new(2, 0)}
    /\ size = Viewport100x30
    /\ ExampleCords[2].cords = Cords_new(27, 9)

----------------------------------------------------------------------------------------------------------------------------------------------------
(* C19 *)

\* The concatenation of the byte strings of seq, in order.
RECURSIVE Concat(_)
Concat(seq) == IF seq = <<>> THEN <<>> ELSE Head(seq) \o Concat(Tail(seq))

\* What tests::test expects in the sink: ESC[1;1H BEL ESC[1m ESC(B ESC[m.
KittyTestBytes == <<27, 91, 49, 59, 49, 72, 7, 27, 91, 49, 109, 27, 40, 66, 27, 91, 109>>

\* C19: the buffer is the concatenation, in call order, of what each successful
\* call (capability method, append, write) produced since the buffer was last
\* emptied; flush_to appends exactly those bytes to the sink and leaves the
\* buffer empty; with the kitty entry move_cursor(0,0), bell, enter_bold_mode,
\* exit_attribute_mode and flush_to give ESC[1;1H BEL ESC[1m ESC(B ESC[m.
C19_BufferInCallOrder ==
    /\ [](buffer = Concat(emitted))
    /\ [][ tw_call' = <<"flush_to", <<>>>>
             => (sink' = sink \o Concat(emitted) /\ buffer' = <<>>) ]_vars
    /\ [][ (/\ tw_db = Some(KittyDb)
            /\ buffer = <<>>
            /\ tw_call' = move_cursor(0, 0))
             => buffer' = <<27, 91, 49, 59, 49, 72>> ]_vars
    /\ [][ (/\ tw_db = Some(KittyDb)
            /\ buffer = <<27, 91, 49, 59, 49, 72, 7, 27, 91, 49, 109>>
            /\ tw_call' = exit_attribute_mode)
             => buffer' = KittyTestBytes ]_vars

\* The four calls of tests::test were flushed into the sink.
C19_Witness ==
    /\ tw_db = Some(KittyDb)
    /\ tw_call = <<"flush_to", <<>>>>
    /\ sink = KittyTestBytes
    /\ buffer = <<>>
    /\ tw_calls = 4

----------------------------------------------------------------------------
(* C20 *)

\* C20: a capability method whose capability the database lacks returns the
\* capability-not-found error that names the capability, and the buffer after
\* the call is the buffer before it.
C20_AbsentCapability ==
    [][ (/\ tw_db # None
         /\ tw_call' \in CapCalls
         /\ tw_db[1][tw_call'[1]] = None)
          => /\ tw_last' = CapabilityNotFound(tw_call'[1])
             /\ buffer' = buffer
             /\ sink' = sink ]_vars

\* enter_ca_mode failed on a wrapper without the capability while the buffer
\* held bytes.
C20_Witness ==
    /\ tw_db = Some(NoAltScreenDb)
    /\ tw_call = enter_ca_mode
    /\ tw_last = CapabilityNotFound("enter_ca_mode")
    /\ buffer # <<>>

----------------------------------------------------------------------------
(* C21 *)

\* The legacy SGR sequence for colour n: ESC [ 3 n m or ESC [ 4 n m.
LegacySgr(call) ==
    <<27, 91, IF call[1] = "set_foreground" THEN 51 ELSE 52, 48 + call[2][1], 109>>

\* C21: set_foreground and set_background with a colour index outside 0..7 do
\* not return Ok and append nothing to the buffer; with an index in 0..7 and
\* the capability present they append ESC[3nm and ESC[4nm.
C21_ColorIndexChecked ==
    [][ (/\ tw_db # None
         /\ tw_call'[1] \in {"set_foreground", "set_background"})
          => IF tw_call'[2][1] > 7
               THEN ~tw_last'.ok /\ buffer' = buffer
               ELSE tw_db[1][tw_call'[1]] # None
                      => buffer' = buffer \o LegacySgr(tw_call') ]_vars

----------------------------------------------------------------------------
(* C25 *)

\* The entry the claim has a capability add: the value without its ESC '['
\* prefix when it has one, parsed as a CSI.
ClaimedPushFromDb(database, name, code) ==
    LET v == database[name] IN
    IF v = None THEN None
    ELSE LET bytes == v[1]
             rest == IF Len(bytes) >= 2 /\ bytes[1] = 27 /\ bytes[2] = 91
                       THEN SubSeq(bytes, 3, Len(bytes)) ELSE bytes
             parsed == CSICommand_parse(rest)
         IN  IF parsed # None THEN Some(<<parsed[1].cmd, code>>) ELSE None

\* The table the claim describes for a database: one entry per capability that
\* has one, in declaration order.
ClaimedTable(database) ==
    LET pushes == [k \in 1..Len(KeySources) |->
                     IF KeySources[k].kind = "lit"
                       THEN push_literal(KeySources[k].bytes, KeySources[k].code)
                       ELSE ClaimedPushFromDb(database, KeySources[k].cap, KeySources[k].code)]
        hits == SelectSeq(pushes, LAMBDA o : o # None)
    IN  [k \in 1..Len(hits) |-> hits[k][1]]

\* C25: after push_from_terminfo the table holds, in declaration order, one
\* entry for each key capability whose value, without its ESC '[' prefix if it
\* starts with one, parses as a CSI, and no entry for an absent capability, a
\* one-byte value or a value starting with ESC 'O'.
C25_TablePopulation ==
    db # None => mappings = ClaimedTable(db[1])

----------------------------------------------------------------------------
(* C29 *)

\* The non-ESC ASCII bytes of an input, in order, as the events the claim has
\* them produce.
AsciiEventsOf(bytes) ==
    LET ascii == SelectSeq(bytes, LAMBDA b : b < 128)
    IN  [k \in 1..Len(ascii) |-> KeyEvent(ascii[k], Modifiers_NONE)]

\* C29: for an input without ESC, every ASCII byte produces its own key event
\* with the byte for key code, whatever precedes it: the events with an ASCII
\* key code are the ASCII bytes of the input, in order.
C29_AsciiNotSwallowed ==
    (ppc = "parsed" /\ ~events.panic /\ \A k \in 1..Len(input) : input[k] # ESC)
        => SelectSeq(events.events, LAMBDA e : e.key_code < 128) = AsciiEventsOf(input)

----------------------------------------------------------------------------
(* C28 *)

\* C28: a remove leaves every entry other than the one its handle was issued
\* for as it was: a handle that resolved before the remove and was never
\* passed to remove still resolves to its value after it, also when the handle
\* removed is a stale one of the same slot.
C28_StaleRemoveHarmless ==
    [][ issued' = issued
          => \A e \in issued :
               (AnyArena_get(items, e.handle) = Some(e.value) /\ e.handle \notin removed')
                   => AnyArena_get(items', e.handle) = Some(e.value) ]_vars

----------------------------------------------------------------------------
(* C27 *)

\* C27: converting a window size of cols columns and rows rows gives the
\* rectangle from (0,0) to (cols-1, rows-1) without underflow or abort, for
\* every cols and rows, 0 included.
C27_ViewportFromWinsize ==
    /\ ~ws_rect.panic
    /\ ws_rect.rect.upper_left = Cords_new(0, 0)
    /\ ws_rect.rect.down_right.col + 1 = winsize.ws_col
    /\ ws_rect.rect.down_right.row + 1 = winsize.ws_row

----------------------------------------------------------------------------
(* C30 *)

\* Every stored anchor with a parent rectangle has its two corners at smaller
\* arena indices, and both corner handles resolve.
CornersBelow ==
    \A i \in 1..Len(anchors) :
        LET parent == anchors[i].inner[2] IN
        parent # None =>
            /\ parent[1].upper_left.index < i - 1
            /\ parent[1].down_right.index < i - 1
            /\ ArenaAlloc_get(anchors, parent[1].upper_left) # None
            /\ ArenaAlloc_get(anchors, parent[1].down_right) # None

\* C30: after any sequence of add_anchor, add_anchor_in and add_rect with the
\* engine's own handles every anchor's corners are stored at smaller indices
\* and resolve, and get_cords_of_anchor returns without aborting for every
\* issued handle.
C30_AcyclicAndTotal ==
    /\ CornersBelow
    /\ \A h \in anchor_handles, checks \in BOOLEAN :
         ~get_cords_of_anchor(anchors, size, h, checks).panic

----------------------------------------------------------------------------
(* C22 *)

\* The attributes the claim has raw_mode write, given the ones it read.
ClaimedRaw(t) ==
    [input_flags |-> {f \in t.input_flags :
                        f \notin {"IGNBRK", "BRKINT", "PARMRK", "ISTRIP", "ICRNL", "IGNCR", "IXON"}},
     output_flags |-> {f \in t.output_flags : f # "OPOST"},
     local_flags |-> {f \in t.local_flags :
                        f \notin {"ECHO", "ECHONL", "ICANON", "ISIG", "IEXTEN"}},
     control_flags |-> {f \in t.control_flags : f \notin {"CSIZE_LOW", "CSIZE_HIGH", "PARENB"}}
                          \cup {"CSIZE_LOW", "CSIZE_HIGH"},
     control_chars |-> [c \in DOMAIN t.control_chars |->
                          IF c = "VMIN" THEN 1 ELSE IF c = "VTIME" THEN 0
                          ELSE t.control_chars[c]]]

----------------------------------------------------------------------------
(* C23 *)

\* C23: the snapshot taken by Selector::new is never changed afterwards, and
\* after a teardown whose attribute write succeeded (the return of run() or the
\* drop) the tty's attributes are the snapshot, written with TCSADRAIN.
C23_SnapshotRestored ==
    /\ [][orig_termios # None => orig_termios' = orig_termios]_vars
    /\ [](sel_pc = "returned" => (tty_attrs = orig_termios[1] /\ term_arg = Some("TCSADRAIN")))
    /\ []((sel_pc = "dropped" /\ term_result.ok)
             => (tty_attrs = orig_termios[1] /\ term_arg = Some("TCSADRAIN")))

\* The drop after a panic in the drawing loop put back attributes that raw_mode
\* had changed.
C23_Witness ==
    /\ sel_pc = "dropped"
    /\ term_result.ok
    /\ frames >= 1
    /\ applied # <<>>
    /\ tty_attrs = orig_termios[1]
    /\ raw_mode_block(orig_termios[1]) # orig_termios[1]

----------------------------------------------------------------------------
(* C24 *)

\* The undo capability paired with a change.
UndoOf(c) == IF c = "enter_ca_mode" THEN "exit_ca_mode" ELSE "cursor_normal"
UndoCaps == {"exit_ca_mode", "cursor_normal"}

\* The undos of the changes in force, last applied first, as Drop would emit
\* them: <<capability, bytes>>.
ClaimedUndos(database, changes) ==
    [k \in 1..Len(changes) |->
        LET c == UndoOf(changes[Len(changes) + 1 - k])
        IN  <<c, expand(database[c][1], <<>>)>>]

\* C24: the undo sequences Drop emits are those of the changes that were
\* applied and not yet reverted, last applied first, each once, and none for a
\* change that was never applied or was already reverted.
C24_UndoReplay ==
    (sel_pc = "dropped" /\ \A c \in UndoCaps : sel_db[1][c] # None)
        => SelectSeq(drop_emitted, LAMBDA e : e[1] \in UndoCaps)
             = ClaimedUndos(sel_db[1], applied)

----------------------------------------------------------------------------
(* C26 *)

\* The apply and undo capabilities of a change.
ApplyCap(name) == IF name = "SaveCursor" THEN "save_cursor" ELSE "enter_ca_mode"
RestoreCap(name) == IF name = "SaveCursor" THEN "restore_cursor" ELSE "exit_ca_mode"

\* C26: from_terminfo builds a change iff the database has both its apply
\* capability and its undo capability, and the change then holds the bytes of
\* the two; a successful apply writes exactly the apply bytes and a successful
\* revert exactly the undo bytes captured at construction, whatever database
\* the caller holds by then.
C26_ChangeNeedsUndo ==
    /\ [](chg_call[1] = "from_terminfo"
            => (change # None
                  <=> (chg_src[ApplyCap(chg_call[2])] # None
                         /\ chg_src[RestoreCap(chg_call[2])] # None)))
    /\ [](change # None
            => /\ chg_src[ApplyCap(change[1].name)] # None
               /\ chg_src[RestoreCap(change[1].name)] # None
               /\ change[1].apply = as_ref(chg_src[ApplyCap(change[1].name)][1])
               /\ change[1].restore = as_ref(chg_src[RestoreCap(change[1].name)][1]))
    /\ [][ (chg_call' = <<"apply">> /\ chg_result'.ok)
              => chg_file' = chg_file \o as_ref(chg_src[ApplyCap(change[1].name)][1]) ]_vars
    /\ [][ (chg_call' = <<"revert">> /\ chg_result'.ok)
              => chg_file' = chg_file \o as_ref(chg_src[RestoreCap(change[1].name)][1]) ]_vars

\* EnterCaMode was applied and then reverted after the caller had replaced its
\* database by one with other bytes: the file holds the bytes captured at
\* construction.
C26_Witness ==
    /\ change # None
    /\ change[1].name = "EnterCaMode"
    /\ chg_call = <<"revert">>
    /\ chg_cur = OtherChangeDb
    /\ chg_src # OtherChangeDb
    /\ chg_file = <<27, 91, 63, 49, 48, 52, 57, 104, 27, 91, 63, 49, 48, 52, 57, 108>>

====
